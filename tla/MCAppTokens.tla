----------------------------- MODULE MCAppTokens -----------------------------
\* Instances of AppTokens for TLC. One unit of time is half a minute: the
\* lead and the backdate keep their size, the JWT lives seven units.
EXTENDS AppTokens

ServerAhead == {0, 1}
ServerBehind == {-1}
==============================================================================
