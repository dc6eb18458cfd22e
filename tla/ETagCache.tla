------------------------------ MODULE ETagCache ------------------------------
(***************************************************************************)
(* The conditional GET cache of a Kernel (etag.go): the policy that        *)
(* newETagTransport gives the external go-etag transport - the key of an   *)
(* entry and the size bounds - under concurrent requests with several      *)
(* credentials, against a server whose resources change.  Of the go-etag   *)
(* transport the model assumes what etag.go and etag_test.go rely on, and  *)
(* that a 304 is answered from an entry with the validator that the 304    *)
(* confirms: the one the request carried, evicted meanwhile or not, or the *)
(* one that has taken its place under the key.                             *)
(***************************************************************************)
EXTENDS Integers, Sequences, SequencesExt

CONSTANTS
    Requests,      \* goroutines that send requests through one cache
    Credentials,   \* Authorization headers, "" when there is none
    URLs,
    Versions,      \* states of the resource behind a URL
    Sizes,         \* sizes of response bodies
    Setups,        \* [inner, discerning]: whether the base transport sets an
                   \* Authorization header of its own, and whether the server
                   \* gives two credentials different ETags for one resource
    MaxEntries,    \* ETagOptions
    MaxBodyBytes,
    DefaultETagEntries,
    defaultETagMaxBodyBytes

ASSUME ETagAssumption ==
    /\ "" \in Credentials
    /\ Setups \subseteq [inner : BOOLEAN, discerning : BOOLEAN]
    /\ MaxEntries \in Nat /\ MaxBodyBytes \in Int /\ Sizes \subseteq Nat
    /\ DefaultETagEntries \in Nat \ {0} /\ defaultETagMaxBodyBytes \in Nat \ {0}

VARIABLES
    setup,
    version,   \* the server's resources
    token,     \* what the base transport puts into Authorization
    entries,   \* the cache, oldest entry first
    req,       \* what each goroutine asks for, and the entry it revalidates
    pc,        \* "idle", "sent", "answered"
    answer,    \* the response on its way up, and what the caller gets
    truth      \* history: the body an unconditional request would have got

vars == <<setup, version, token, entries, req, pc, answer, truth>>
server == <<setup, version, token>>

-----------------------------------------------------------------------------
(* newETagTransport hands MaxEntries on as it is, and go-etag reads zero as *)
(* DefaultETagEntries.                                                      *)
maxEntries == IF MaxEntries = 0 THEN DefaultETagEntries ELSE MaxEntries

maxBodyBytes == IF MaxBodyBytes <= 0 THEN defaultETagMaxBodyBytes
                                     ELSE MaxBodyBytes

None == [key |-> <<>>, etag |-> <<>>, body |-> <<>>]

(* authKey: a fingerprint of the Authorization header that reaches the      *)
(* cache; no header is a key of its own.                                    *)
authKey(auth) == auth

(* Variant: entries are keyed by URL alone. *)
URLKey(q) == <<"", q.url>>

KeyFunc(q) == <<authKey(q.auth), q.url>>

(* The credential the server sees. *)
Effective(q) == IF setup.inner THEN token ELSE q.auth

Body(q) == <<Effective(q), q.url, version[q.url]>>

(* The server's validator for a body. *)
ETag(b) == IF setup.discerning THEN b ELSE <<"", b[2], b[3]>>

(* The entry for key k, None if there is none. *)
Lookup(k) ==
    LET i == SelectInSeq(entries, LAMBDA e : e.key = k)
    IN  IF i = 0 THEN None ELSE entries[i]

(* Variant: a key may have several entries. *)
StoredAgain(e) == {Append(entries, e)}

(* The caches that storing e may leave: go-etag may replace an entry where  *)
(* it is or queue it anew, and evicts the oldest beyond maxEntries.         *)
Stored(e) ==
    LET i      == SelectInSeq(entries, LAMBDA o : o.key = e.key)
        queued == Append(IF i = 0 THEN entries ELSE RemoveAt(entries, i), e)
        fitted == IF Len(queued) > maxEntries THEN Tail(queued) ELSE queued
    IN  {fitted} \cup (IF i = 0 THEN {} ELSE {[entries EXCEPT ![i] = e]})

NoRequest == [method |-> "GET", auth |-> "", url |-> "", entry |-> None]
NoAnswer  == [status |-> 0, etag |-> <<>>, body |-> <<>>, fromCache |-> FALSE]
NoTruth   == <<>>

(* RoundTrip is over. *)
Return(r) ==
    /\ pc' = [pc EXCEPT ![r] = "idle"]
    /\ req' = [req EXCEPT ![r] = NoRequest]

-----------------------------------------------------------------------------
Init ==
    /\ setup \in Setups
    /\ version \in [URLs -> Versions]
    /\ token \in Credentials \ {""}
    /\ entries = <<>>
    /\ req = [r \in Requests |-> NoRequest]
    /\ pc = [r \in Requests |-> "idle"]
    /\ answer = [r \in Requests |-> NoAnswer]
    /\ truth = [r \in Requests |-> NoTruth]

(* A request enters the transport; a GET carries the validator of the       *)
(* entry under its key, if there is one.                                    *)
Send(r, method, auth, url) ==
    LET q == [method |-> method, auth |-> auth, url |-> url, entry |-> None]
    IN
    /\ pc[r] = "idle"
    /\ req' = [req EXCEPT ![r] =
                  IF method = "GET" THEN [q EXCEPT !.entry = Lookup(KeyFunc(q))]
                  ELSE q]
    /\ pc' = [pc EXCEPT ![r] = "sent"]
    /\ answer' = [answer EXCEPT ![r] = NoAnswer]
    /\ truth' = [truth EXCEPT ![r] = NoTruth]
    /\ UNCHANGED <<server, entries>>

(* The server answers: 304 to a validator that still holds, the resource    *)
(* otherwise.                                                               *)
Handle(r) ==
    LET q    == req[r]
        tag  == ETag(Body(q))
        full == [status |-> 200, etag |-> tag, body |-> Body(q), fromCache |-> FALSE]
        same == [status |-> 304, etag |-> tag, body |-> <<>>, fromCache |-> FALSE]
    IN
    /\ pc[r] = "sent"
    /\ pc' = [pc EXCEPT ![r] = "answered"]
    /\ answer' = [answer EXCEPT ![r] =
                     IF q.entry # None /\ q.entry.etag = tag THEN same ELSE full]
    /\ truth' = [truth EXCEPT ![r] = Body(q)]
    /\ UNCHANGED <<server, entries, req>>

(* No answer, or an error status: nothing is cached. *)
Fail(r, status) ==
    /\ pc[r] = "sent"
    /\ Return(r)
    /\ answer' = [answer EXCEPT ![r] = [NoAnswer EXCEPT !.status = status]]
    /\ truth' = [truth EXCEPT ![r] = NoTruth]
    /\ UNCHANGED <<server, entries>>

(* The entries a 304 to r may be answered from. *)
Confirmed(r) ==
    {e \in {req[r].entry, Lookup(KeyFunc(req[r]))} :
        e # None /\ e.etag = answer[r].etag}

(* A 304 becomes the cached response, marked. *)
Revalidated(r) ==
    /\ pc[r] = "answered" /\ answer[r].status = 304
    /\ \E e \in Confirmed(r) :
          answer' = [answer EXCEPT ![r] =
                        [status |-> 200, etag |-> e.etag, body |-> e.body,
                         fromCache |-> TRUE]]
    /\ Return(r)
    /\ UNCHANGED <<server, entries, truth>>

(* The body is read; a response to a GET that is small enough is stored. *)
Fetched(r, size) ==
    LET a == answer[r] IN
    /\ pc[r] = "answered" /\ a.status = 200
    /\ IF req[r].method = "GET" /\ size <= maxBodyBytes
       THEN entries' \in Stored([key |-> KeyFunc(req[r]), etag |-> a.etag,
                                 body |-> a.body])
       ELSE UNCHANGED entries
    /\ Return(r)
    /\ UNCHANGED <<server, answer, truth>>

(* A resource changes, also back to what it was. *)
Change(u) ==
    /\ \E v \in Versions \ {version[u]} : version' = [version EXCEPT ![u] = v]
    /\ UNCHANGED <<setup, token, entries, req, pc, answer, truth>>

(* The base transport goes on to another token. *)
Rotate ==
    /\ setup.inner
    /\ \E t \in Credentials \ {"", token} : token' = t
    /\ UNCHANGED <<setup, version, entries, req, pc, answer, truth>>

RoundTrip(r) ==
    \/ \E m \in {"GET", "POST"}, a \in Credentials, u \in URLs : Send(r, m, a, u)
    \/ Handle(r)
    \/ \E status \in {0, 404} : Fail(r, status)
    \/ Revalidated(r)
    \/ \E size \in Sizes : Fetched(r, size)

Next == \/ Rotate
        \/ \E u \in URLs : Change(u)
        \/ \E r \in Requests : RoundTrip(r)

Spec == Init /\ [][Next]_vars

-----------------------------------------------------------------------------
(* Properties. *)

Tags   == (Credentials \X URLs \X Versions) \cup {<<>>}
Keys   == (Credentials \X URLs) \cup {<<>>}
Entry  == [key : Keys, etag : Tags, body : Tags]
Answers == [status : {0, 200, 304, 404}, etag : Tags, body : Tags,
            fromCache : BOOLEAN]

(* The type invariant; the cache keeps to its bound, with one entry a key.  *)
TypeOK ==
    /\ setup \in Setups
    /\ version \in [URLs -> Versions]
    /\ token \in Credentials
    /\ entries \in Seq(Entry) /\ Len(entries) <= maxEntries
    /\ \A i, j \in DOMAIN entries : entries[i].key = entries[j].key => i = j
    /\ req \in [Requests -> [method : {"GET", "POST"}, auth : Credentials,
                             url : URLs \cup {""}, entry : Entry]]
    /\ pc \in [Requests -> {"idle", "sent", "answered"}]
    /\ answer \in [Requests -> Answers]
    /\ truth \in [Requests -> Tags]

Returned(r) == pc[r] = "idle" /\ answer[r].status = 200

(* The server cannot tell whose body a validator stands for, and the key    *)
(* does not say: the caller's Authorization is replaced below the cache.    *)
Blind == setup.inner /\ ~setup.discerning

(* "The kernel serves the cached body ... so callers see no difference"     *)
(* (etag.go:14-15): whatever was evicted, replaced or changed since the     *)
(* validator was sent, the caller gets the body of its URL, in the version  *)
(* that the server had when it handled the request, and, unless the server  *)
(* is Blind, of its credential.                                             *)
RightBody ==
    \A r \in Requests : Returned(r) =>
        /\ answer[r].body[2] = truth[r][2] /\ answer[r].body[3] = truth[r][3]
        /\ ~Blind => answer[r].body[1] = truth[r][1]

(* "Rotating a token can never serve one credential's response to another"  *)
(* (etag.go:67-68): the credential of a body is always the one that the     *)
(* server saw on the request.                                               *)
CredentialsApart ==
    \A r \in Requests : Returned(r) => answer[r].body[1] = truth[r][1]

=============================================================================
