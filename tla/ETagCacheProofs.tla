--------------------------- MODULE ETagCacheProofs ----------------------------
(***************************************************************************)
(* Proofs about ETagCache, for any number of goroutines, credentials and   *)
(* URLs, any bounds of the cache and every server.                         *)
(*                                                                         *)
(* Inv is the inductive invariant.  An entry is Sound when its validator   *)
(* determines its body together with its key, unless the server is Blind.  *)
(* Every entry in the cache is Sound (Cached); so is the one a request     *)
(* revalidates, which it found under its own key (Carried), whatever       *)
(* happens to the cache meanwhile; and an answer on its way up has the     *)
(* validator of what the server had (Answering).                           *)
(***************************************************************************)
EXTENDS ETagCache, SequenceTheorems, TLAPS

Bodies == Credentials \X URLs \X Versions

(* The body was made for the URL of the key, and for its credential unless  *)
(* the base transport put its own token there; the validator is the         *)
(* server's for that body.                                                  *)
Sound(e) ==
    /\ e \in [key : Credentials \X URLs, etag : Bodies, body : Bodies]
    /\ e.body[2] = e.key[2]
    /\ ~setup.inner => e.body[1] = e.key[1]
    /\ e.etag = ETag(e.body)

Cached == \A i \in 1 .. Len(entries) : Sound(entries[i])

Carried(r) ==
    pc[r] # "idle" =>
        /\ req[r].url \in URLs
        /\ \/ req[r].entry = None
           \/ Sound(req[r].entry) /\ req[r].entry.key = KeyFunc(req[r])

(* What Fetched would store. *)
NewEntry(r) == [key |-> KeyFunc(req[r]), etag |-> answer[r].etag,
                body |-> answer[r].body]

(* t is what the server may have for the request q. *)
Truth(t, q) ==
    /\ t \in Bodies
    /\ t[2] = KeyFunc(q)[2]
    /\ ~setup.inner => t[1] = KeyFunc(q)[1]

Answering(r) ==
    pc[r] = "answered" =>
        /\ answer[r].status \in {200, 304}
        /\ Truth(truth[r], req[r])
        /\ answer[r].etag = ETag(truth[r])
        /\ answer[r].status = 200 => answer[r].body = truth[r]

(* b is the right body where the server had t. *)
Matches(b, t) == b[2] = t[2] /\ b[3] = t[3] /\ (~Blind => b[1] = t[1])

(* The promise to the caller. *)
Kept(r) == Returned(r) => Matches(answer[r].body, truth[r])

RequestInv == \A r \in Requests : Carried(r) /\ Answering(r) /\ Kept(r)

Inv == TypeOK /\ Cached /\ RequestInv

-----------------------------------------------------------------------------
(* No two entries have the same key. *)
Distinct(s) == \A i, j \in 1 .. Len(s) : s[i].key = s[j].key => i = j

(* No Authorization header is a credential too. *)
LEMMA NoCredential == "" \in Credentials
  BY ETagAssumption

(* The base transport and the server are of one of four kinds. *)
LEMMA SetupTypes ==
    ASSUME NEW s \in Setups
    PROVE  s.inner \in BOOLEAN /\ s.discerning \in BOOLEAN
  BY ETagAssumption

(* No entry is of the type of entries. *)
LEMMA NoneIsEntry == None \in Entry
  BY DEF None, Entry, Keys, Tags

(* A cache has room for one entry at least. *)
LEMMA RoomForOne == maxEntries \in Nat /\ maxEntries >= 1
<1>1. MaxEntries \in Nat /\ DefaultETagEntries \in Nat \ {0}
  BY ETagAssumption
<1> QED  BY <1>1 DEF maxEntries

(* SelectInSeq finds the entry of a key, if there is one. *)
LEMMA Find ==
    ASSUME NEW s \in Seq(Entry), NEW k, Distinct(s)
    PROVE  LET i == SelectInSeq(s, LAMBDA e : e.key = k)
           IN  /\ i \in 0 .. Len(s)
               /\ i # 0 => s[i].key = k
               /\ i = 0 => \A j \in 1 .. Len(s) : s[j].key # k
<1> DEFINE I == {i \in 1 .. Len(s) : s[i].key = k}
           i == SelectInSeq(s, LAMBDA e : e.key = k)
<1>1. i = IF I # {} THEN Min(I) ELSE 0
  BY DEF SelectInSeq
<1>2. Len(s) \in Nat /\ I \subseteq 1 .. Len(s)
  OBVIOUS
<1>3. ASSUME NEW m \in I PROVE Min(I) \in I
  <2>1. \A n \in I : n = m
    BY DEF Distinct
  <2>2. \A n \in I : m <= n
    BY <1>2, <2>1
  <2> QED  BY <2>2 DEF Min
<1>4. CASE I = {}
  BY <1>1, <1>2, <1>4
<1>5. CASE I # {}
  <2>1. i \in I
    BY <1>1, <1>3, <1>5
  <2>2. i \in 1 .. Len(s) /\ s[i].key = k
    BY <2>1
  <2>3. i \in 0 .. Len(s) /\ i # 0
    BY <1>2, <2>2
  <2> QED  BY <2>2, <2>3
<1> QED  BY <1>4, <1>5

(* RemoveAt closes the gap. *)
LEMMA Removed ==
    ASSUME NEW S, NEW s \in Seq(S), NEW i \in 1 .. Len(s)
    PROVE  /\ RemoveAt(s, i) \in Seq(S)
           /\ Len(RemoveAt(s, i)) = Len(s) - 1
           /\ \A j \in 1 .. Len(s) - 1 :
                 RemoveAt(s, i)[j] = s[IF j < i THEN j ELSE j + 1]
<1> DEFINE a == SubSeq(s, 1, i - 1)
           b == SubSeq(s, i + 1, Len(s))
<1>1. /\ a \in Seq(S) /\ Len(a) = i - 1
      /\ \A j \in 1 .. i - 1 : a[j] = s[j]
  OBVIOUS
<1>2. /\ b \in Seq(S) /\ Len(b) = Len(s) - i
      /\ \A j \in 1 .. Len(s) - i : b[j] = s[i + j]
  OBVIOUS
<1> HIDE DEF a, b
<1>3. /\ a \o b \in Seq(S) /\ Len(a \o b) = Len(s) - 1
      /\ \A j \in 1 .. Len(s) - 1 :
            (a \o b)[j] = IF j <= i - 1 THEN a[j] ELSE b[j - (i - 1)]
  <2>1. /\ a \o b \in Seq(S) /\ Len(a \o b) = Len(a) + Len(b)
        /\ \A j \in 1 .. Len(a) + Len(b) :
              (a \o b)[j] = IF j <= Len(a) THEN a[j] ELSE b[j - Len(a)]
    BY <1>1, <1>2, ConcatProperties
  <2>2. Len(a) + Len(b) = Len(s) - 1
    BY <1>1, <1>2
  <2> QED  BY <1>1, <2>1, <2>2
<1>4. ASSUME NEW j \in 1 .. Len(s) - 1
      PROVE  (a \o b)[j] = s[IF j < i THEN j ELSE j + 1]
  <2>1. CASE j < i
    BY <1>1, <1>3, <2>1
  <2>2. CASE ~(j < i)
    <3>1. j - (i - 1) \in 1 .. Len(s) - i /\ i + (j - (i - 1)) = j + 1
      BY <2>2
    <3> QED  BY <1>2, <1>3, <2>2, <3>1
  <2> QED  BY <2>1, <2>2
<1>5. RemoveAt(s, i) = a \o b
  BY DEF RemoveAt, a, b
<1> QED  BY <1>3, <1>4, <1>5

(* A Sound entry is an Entry. *)
LEMMA SoundIsEntry == \A e : Sound(e) => e \in Entry
  BY DEF Sound, Entry, Keys, Tags, Bodies

(* Storing a Sound entry keeps the cache Sound, its keys apart and its      *)
(* length within its bound.                                                 *)
LEMMA StoreSound ==
    ASSUME entries \in Seq(Entry), Len(entries) <= maxEntries,
           Distinct(entries), Cached,
           NEW e, Sound(e), NEW t \in Stored(e)
    PROVE  /\ t \in Seq(Entry) /\ Len(t) <= maxEntries /\ Distinct(t)
           /\ \A j \in 1 .. Len(t) : Sound(t[j])
<1> DEFINE i      == SelectInSeq(entries, LAMBDA o : o.key = e.key)
           rest   == IF i = 0 THEN entries ELSE RemoveAt(entries, i)
           queued == Append(rest, e)
           fitted == IF Len(queued) > maxEntries THEN Tail(queued) ELSE queued
<1>1. /\ i \in 0 .. Len(entries)
      /\ i # 0 => entries[i].key = e.key
      /\ i = 0 => \A j \in 1 .. Len(entries) : entries[j].key # e.key
  BY Find
<1>2. t = fitted \/ (i # 0 /\ t = [entries EXCEPT ![i] = e])
  BY DEF Stored
<1>3. e \in Entry
  BY SoundIsEntry
<1> HIDE DEF i
<1>4. /\ rest \in Seq(Entry) /\ Len(rest) <= maxEntries /\ Distinct(rest)
      /\ \A j \in 1 .. Len(rest) : Sound(rest[j]) /\ rest[j].key # e.key
  <2>1. CASE i = 0
    BY <1>1, <2>1 DEF Cached
  <2>2. CASE i # 0
    <3>1. /\ rest = RemoveAt(entries, i) /\ i \in 1 .. Len(entries)
      BY <1>1, <2>2
    <3>2. /\ rest \in Seq(Entry) /\ Len(rest) = Len(entries) - 1
          /\ \A j \in 1 .. Len(entries) - 1 :
                rest[j] = entries[IF j < i THEN j ELSE j + 1]
      BY <3>1, Removed
    <3> HIDE DEF rest
    <3>3. Len(rest) <= maxEntries
      BY <3>2, RoomForOne
    <3>4. ASSUME NEW j \in 1 .. Len(rest)
          PROVE  \E m \in 1 .. Len(entries) :
                    m # i /\ rest[j] = entries[m] /\ m = IF j < i THEN j ELSE j + 1
      <4> DEFINE m == IF j < i THEN j ELSE j + 1
      <4>1. j \in 1 .. Len(entries) - 1 /\ Len(entries) \in Nat
        BY <3>2
      <4>2. m \in 1 .. Len(entries) /\ m # i
        BY <3>1, <4>1
      <4>3. rest[j] = entries[m]
        BY <3>2, <4>1
      <4> QED  BY <4>2, <4>3
    <3>5. Distinct(rest)
      <4>1. SUFFICES ASSUME NEW j \in 1 .. Len(rest), NEW n \in 1 .. Len(rest),
                            rest[j].key = rest[n].key
                     PROVE  j = n
        BY DEF Distinct
      <4>2. PICK jj \in 1 .. Len(entries) :
               rest[j] = entries[jj] /\ jj = IF j < i THEN j ELSE j + 1
        BY <3>4
      <4>3. PICK nn \in 1 .. Len(entries) :
               rest[n] = entries[nn] /\ nn = IF n < i THEN n ELSE n + 1
        BY <3>4
      <4>4. jj = nn
        BY <4>1, <4>2, <4>3 DEF Distinct
      <4> QED  BY <3>1, <3>2, <4>2, <4>3, <4>4
    <3>6. \A j \in 1 .. Len(rest) : Sound(rest[j]) /\ rest[j].key # e.key
      BY <1>1, <3>1, <3>4 DEF Cached, Distinct
    <3> QED  BY <3>2, <3>3, <3>5, <3>6
  <2> QED  BY <1>1, <2>1, <2>2
<1> HIDE DEF rest
<1>5. /\ queued \in Seq(Entry) /\ Len(queued) = Len(rest) + 1
      /\ \A j \in 1 .. Len(rest) : queued[j] = rest[j]
      /\ queued[Len(rest) + 1] = e
  BY <1>3, <1>4, AppendProperties
<1> HIDE DEF queued
<1>6. /\ Distinct(queued)
      /\ \A j \in 1 .. Len(queued) : Sound(queued[j])
  <2>1. Len(rest) \in Nat
    BY <1>4
  <2>2. \A j \in 1 .. Len(queued) : j \in 1 .. Len(rest) \/ j = Len(rest) + 1
    BY <1>5, <2>1
  <2>3. \A j \in 1 .. Len(queued) : Sound(queued[j])
    BY <1>4, <1>5, <2>2
  <2>4. \A j \in 1 .. Len(rest) : queued[j].key # e.key
    BY <1>4, <1>5
  <2>5. Distinct(queued)
    BY <1>4, <1>5, <2>2, <2>4 DEF Distinct
  <2> QED  BY <2>3, <2>5
<1>7. CASE t = fitted
  <2>1. CASE Len(queued) > maxEntries
    <3>1. t = Tail(queued) /\ queued # <<>>
      BY <1>5, <1>7, <2>1, RoomForOne
    <3>2. /\ t \in Seq(Entry) /\ Len(t) = Len(queued) - 1
          /\ \A j \in 1 .. Len(t) : t[j] = queued[j + 1]
      BY <1>5, <3>1, HeadTailProperties
    <3>3. Len(t) <= maxEntries
      BY <1>4, <1>5, <3>2
    <3>4. \A j \in 1 .. Len(t) : j + 1 \in 1 .. Len(queued)
      BY <1>5, <3>2
    <3>5. Distinct(t)
      BY <1>6, <3>2, <3>4 DEF Distinct
    <3> QED  BY <1>6, <3>2, <3>3, <3>4, <3>5
  <2>2. CASE ~(Len(queued) > maxEntries)
    <3>1. t = queued
      BY <1>7, <2>2
    <3>2. Len(t) <= maxEntries
      BY <1>4, <1>5, <2>2, <3>1, RoomForOne
    <3> QED  BY <1>5, <1>6, <3>1, <3>2
  <2> QED  BY <2>1, <2>2
<1>8. CASE i # 0 /\ t = [entries EXCEPT ![i] = e]
  <2>1. /\ t \in Seq(Entry) /\ Len(t) = Len(entries)
        /\ \A j \in 1 .. Len(entries) : t[j] = IF j = i THEN e ELSE entries[j]
    BY <1>1, <1>3, <1>8, ExceptSeq
  <2>2. \A j \in 1 .. Len(entries) : t[j].key = entries[j].key /\ Sound(t[j])
    BY <1>1, <1>8, <2>1 DEF Cached
  <2>3. Distinct(t)
    BY <2>1, <2>2 DEF Distinct
  <2> QED  BY <2>1, <2>2, <2>3
<1> QED  BY <1>2, <1>7, <1>8

-----------------------------------------------------------------------------
(* The invariant holds when the Kernel is new. *)
LEMMA InvInit == Init => Inv
<1> SUFFICES ASSUME Init PROVE Inv
  OBVIOUS
<1>0. entries = <<>>
  BY DEF Init
<1>1. /\ entries = <<>> /\ Len(entries) = 0 /\ entries \in Seq(Entry)
  BY <1>0
<1>2. \A r \in Requests :
         /\ pc[r] = "idle" /\ req[r] = NoRequest
         /\ answer[r] = NoAnswer /\ truth[r] = NoTruth
  BY DEF Init
<1>3. TypeOK
  <2>1. /\ setup \in Setups /\ version \in [URLs -> Versions]
        /\ token \in Credentials \ {""}
    BY DEF Init
  <2>2. /\ Len(entries) <= maxEntries
        /\ \A i, j \in DOMAIN entries : entries[i].key = entries[j].key => i = j
    BY <1>1, RoomForOne
  <2>3. NoRequest \in [method : {"GET", "POST"}, auth : Credentials,
                       url : URLs \cup {""}, entry : Entry]
    BY NoneIsEntry, NoCredential DEF NoRequest
  <2>4. NoAnswer \in Answers /\ NoTruth \in Tags
    BY DEF NoAnswer, NoTruth, Answers, Tags
  <2> QED  BY <1>1, <2>1, <2>2, <2>3, <2>4 DEF TypeOK, Init
<1>4. Cached
  BY <1>1 DEF Cached
<1>5. RequestInv
  BY <1>2 DEF RequestInv, Carried, Answering, Kept, Returned, NoAnswer
<1> QED  BY <1>3, <1>4, <1>5 DEF Inv

(* What the server has for a request is typed, and Sound as an entry. *)
LEMMA ServerTypes ==
    ASSUME TypeOK, NEW q, q.auth \in Credentials, q.url \in URLs
    PROVE  /\ KeyFunc(q) \in Credentials \X URLs
           /\ Truth(Body(q), q) /\ ETag(Body(q)) \in Bodies
<1>1. setup.inner \in BOOLEAN /\ setup.discerning \in BOOLEAN
  BY SetupTypes DEF TypeOK
<1>2. Effective(q) \in Credentials /\ version[q.url] \in Versions
  BY <1>1 DEF Effective, TypeOK
<1>3. KeyFunc(q) = <<q.auth, q.url>> /\ Body(q) \in Bodies
  BY <1>2 DEF Body, KeyFunc, authKey, Bodies
<1>4. Truth(Body(q), q)
  BY <1>1, <1>2, <1>3 DEF Truth, Body, Effective
<1>5. ETag(Body(q)) \in Bodies
  BY <1>1, <1>2, NoCredential DEF ETag, Body, Bodies
<1> QED  BY <1>3, <1>4, <1>5

(* An entry with the validator of what the server had, under the key of the *)
(* request, has the right body.                                             *)
LEMMA ConfirmedBody ==
    ASSUME TypeOK, NEW q, NEW t, Truth(t, q),
           NEW e, Sound(e), e.key = KeyFunc(q), e.etag = ETag(t)
    PROVE  Matches(e.body, t)
<1>1. setup.inner \in BOOLEAN /\ setup.discerning \in BOOLEAN
  BY SetupTypes DEF TypeOK
<1>2. e.body \in Bodies /\ t \in Bodies /\ ETag(e.body) = ETag(t)
  BY DEF Sound, Truth
<1>3. CASE setup.discerning
  BY <1>2, <1>3 DEF ETag, Matches
<1>4. CASE ~setup.discerning
  <2>1. <<"", e.body[2], e.body[3]>> = <<"", t[2], t[3]>>
    BY <1>2, <1>4 DEF ETag
  <2>2. e.body[2] = t[2] /\ e.body[3] = t[3]
    BY <2>1
  <2>3. ~Blind => e.body[1] = t[1]
    BY <1>1, <1>4 DEF Blind, Sound, Truth
  <2> QED  BY <2>2, <2>3 DEF Matches
<1> QED  BY <1>1, <1>3, <1>4

(* The type invariant keeps the keys apart. *)
LEMMA KeysDistinct == TypeOK => entries \in Seq(Entry) /\ Distinct(entries)
<1> SUFFICES ASSUME TypeOK PROVE entries \in Seq(Entry) /\ Distinct(entries)
  OBVIOUS
<1>1. /\ entries \in Seq(Entry)
      /\ \A i, j \in DOMAIN entries : entries[i].key = entries[j].key => i = j
  BY DEF TypeOK
<1> QED  BY <1>1 DEF Distinct

(* What Lookup finds is Sound and under its key. *)
LEMMA LookupSound ==
    ASSUME TypeOK, Cached, NEW k
    PROVE  /\ Lookup(k) \in Entry
           /\ Lookup(k) = None \/ (Sound(Lookup(k)) /\ Lookup(k).key = k)
<1> DEFINE i == SelectInSeq(entries, LAMBDA e : e.key = k)
<1>1. entries \in Seq(Entry) /\ Distinct(entries)
  BY KeysDistinct
<1>2. /\ i \in 0 .. Len(entries)
      /\ i # 0 => entries[i].key = k
      /\ i = 0 => \A j \in 1 .. Len(entries) : entries[j].key # k
  BY <1>1, Find
<1>3. Lookup(k) = IF i = 0 THEN None ELSE entries[i]
  BY DEF Lookup
<1> HIDE DEF i
<1>5. CASE i = 0
  BY <1>3, <1>5, NoneIsEntry
<1>6. CASE i # 0
  <2>1. i \in 1 .. Len(entries)
    BY <1>1, <1>2, <1>6
  <2>2. Lookup(k) = entries[i] /\ Sound(entries[i])
    BY <1>3, <1>6, <2>1 DEF Cached
  <2> QED  BY <1>2, <1>6, <2>2, SoundIsEntry
<1> QED  BY <1>5, <1>6

(* What Fetched stores is Sound. *)
LEMMA FetchedSound ==
    ASSUME Inv, NEW r \in Requests, pc[r] = "answered", answer[r].status = 200
    PROVE  Sound(NewEntry(r))
<1>1. /\ Truth(truth[r], req[r]) /\ answer[r].body = truth[r]
      /\ answer[r].etag = ETag(truth[r])
  BY DEF Inv, RequestInv, Answering
<1>2. req[r].auth \in Credentials /\ req[r].url \in URLs
  <2>1. TypeOK /\ Carried(r)
    BY DEF Inv, RequestInv
  <2>2. req[r].auth \in Credentials
    <3>1. req \in [Requests -> [method : {"GET", "POST"}, auth : Credentials,
                                url : URLs \cup {""}, entry : Entry]]
      BY <2>1, Zenon DEF TypeOK
    <3> QED  BY <3>1
  <2>3. req[r].url \in URLs
    BY <2>1 DEF Carried
  <2> QED  BY <2>2, <2>3
<1>3. KeyFunc(req[r]) \in Credentials \X URLs
  BY <1>2, ServerTypes DEF Inv
<1>4. ETag(truth[r]) \in Bodies
  BY <1>1, NoCredential DEF ETag, Truth, Bodies
<1> QED  BY <1>1, <1>3, <1>4 DEF Sound, NewEntry, Truth

(* A step keeps the types, and the cache within its bound. *)
LEMMA TypeStep == Inv /\ [Next]_vars => TypeOK'
<1> SUFFICES ASSUME Inv, [Next]_vars PROVE TypeOK'
  OBVIOUS
<1> USE DEF Inv
<1> DEFINE RequestType == [method : {"GET", "POST"}, auth : Credentials,
                           url : URLs \cup {""}, entry : Entry]
           EntriesOK == /\ entries \in Seq(Entry) /\ Len(entries) <= maxEntries
                        /\ \A i, j \in DOMAIN entries :
                              entries[i].key = entries[j].key => i = j
<1>0. /\ NoRequest \in RequestType /\ NoAnswer \in Answers /\ NoTruth \in Tags
  BY NoneIsEntry, NoCredential
     DEF NoRequest, NoAnswer, NoTruth, Answers, Tags
<1>1. ASSUME NEW r \in Requests, NEW m \in {"GET", "POST"}, NEW a \in Credentials,
             NEW u \in URLs, Send(r, m, a, u)
      PROVE  TypeOK'
  <2>1. req' \in [Requests -> RequestType]
    <3> DEFINE q == [method |-> m, auth |-> a, url |-> u, entry |-> None]
    <3>1. q \in RequestType /\ [q EXCEPT !.entry = Lookup(KeyFunc(q))] \in RequestType
      BY NoneIsEntry, LookupSound
    <3>2. \E x \in RequestType : req' = [req EXCEPT ![r] = x]
      BY <1>1, <3>1 DEF Send
    <3> QED  BY <3>2 DEF TypeOK
  <2>2. /\ pc' \in [Requests -> {"idle", "sent", "answered"}]
        /\ answer' \in [Requests -> Answers] /\ truth' \in [Requests -> Tags]
    BY <1>0, <1>1 DEF Send, TypeOK
  <2> QED  BY <1>1, <2>1, <2>2 DEF Send, server, TypeOK
<1>2. ASSUME NEW r \in Requests, Handle(r)
      PROVE  TypeOK'
  <2> DEFINE q == req[r]
             full == [status |-> 200, etag |-> ETag(Body(q)), body |-> Body(q),
                      fromCache |-> FALSE]
             same == [status |-> 304, etag |-> ETag(Body(q)), body |-> <<>>,
                      fromCache |-> FALSE]
  <2>1. q.auth \in Credentials /\ q.url \in URLs
    BY <1>2 DEF Handle, TypeOK, RequestInv, Carried
  <2>2. Body(q) \in Bodies /\ ETag(Body(q)) \in Bodies
    BY <2>1, ServerTypes DEF Truth
  <2>3. full \in Answers /\ same \in Answers
    BY <2>2 DEF Answers, Tags, Bodies
  <2>4. answer' \in [Requests -> Answers]
    <3>1. \E x \in Answers : answer' = [answer EXCEPT ![r] = x]
      BY <1>2, <2>3 DEF Handle
    <3> QED  BY <3>1 DEF TypeOK
  <2>5. truth' \in [Requests -> Tags]
    BY <1>2, <2>2 DEF Handle, TypeOK, Tags, Bodies
  <2>6. pc' \in [Requests -> {"idle", "sent", "answered"}]
    BY <1>2 DEF Handle, TypeOK
  <2> QED  BY <1>2, <2>4, <2>5, <2>6 DEF Handle, server, TypeOK
<1>3. ASSUME NEW r \in Requests, NEW status \in {0, 404}, Fail(r, status)
      PROVE  TypeOK'
  <2>1. [NoAnswer EXCEPT !.status = status] \in Answers
    BY DEF NoAnswer, Answers, Tags
  <2> QED  BY <1>0, <1>3, <2>1 DEF Fail, Return, server, TypeOK
<1>4. ASSUME NEW r \in Requests, Revalidated(r)
      PROVE  TypeOK'
  <2>1. \A e \in Confirmed(r) : e \in Entry
    <3>1. req[r].entry \in Entry
      BY DEF TypeOK
    <3> QED  BY <3>1, LookupSound DEF Confirmed
  <2>2. \A e \in Entry : [status |-> 200, etag |-> e.etag, body |-> e.body,
                          fromCache |-> TRUE] \in Answers
    BY DEF Answers, Entry
  <2>3. answer' \in [Requests -> Answers]
    <3>1. \E x \in Answers : answer' = [answer EXCEPT ![r] = x]
      BY <1>4, <2>1, <2>2 DEF Revalidated, TypeOK
    <3> QED  BY <3>1 DEF TypeOK
  <2> QED  BY <1>0, <1>4, <2>3 DEF Revalidated, Return, server, TypeOK
<1>5. ASSUME NEW r \in Requests, NEW size \in Sizes, Fetched(r, size)
      PROVE  TypeOK'
  <2>1. EntriesOK'
    <3>1. CASE UNCHANGED entries
      BY <3>1 DEF TypeOK
    <3>2. CASE entries' \in Stored(NewEntry(r))
      <4>1. Sound(NewEntry(r))
        BY <1>5, FetchedSound DEF Fetched
      <4>2. entries \in Seq(Entry) /\ Len(entries) <= maxEntries /\ Distinct(entries)
        BY KeysDistinct DEF TypeOK
      <4>3. entries' \in Seq(Entry) /\ Len(entries') <= maxEntries /\ Distinct(entries')
        BY <3>2, <4>1, <4>2, StoreSound
      <4> QED  BY <4>3 DEF Distinct, maxEntries
    <3> QED  BY <1>5, <3>1, <3>2 DEF Fetched, NewEntry
  <2> QED  BY <1>0, <1>5, <2>1 DEF Fetched, Return, server, TypeOK
<1>6. ASSUME NEW u \in URLs, Change(u)
      PROVE  TypeOK'
  BY <1>6 DEF Change, TypeOK
<1>7. CASE Rotate
  BY <1>7 DEF Rotate, TypeOK
<1>8. CASE UNCHANGED vars
  BY <1>8 DEF vars, TypeOK
<1> QED  BY <1>1, <1>2, <1>3, <1>4, <1>5, <1>6, <1>7, <1>8
         DEF Next, RoundTrip

(* Nothing changes for a request that another step leaves alone. *)
LEMMA OthersKept ==
    ASSUME NEW r \in Requests, Inv, setup' = setup, pc'[r] = pc[r],
           req'[r] = req[r], answer'[r] = answer[r], truth'[r] = truth[r]
    PROVE  (Carried(r) /\ Answering(r) /\ Kept(r))'
<1>1. /\ \A e : Sound(e)' <=> Sound(e)
      /\ \A t, q : Truth(t, q)' <=> Truth(t, q)
      /\ \A t : ETag(t)' = ETag(t)
      /\ \A b, t : Matches(b, t)' <=> Matches(b, t)
  BY DEF Sound, Truth, ETag, Matches, Blind, KeyFunc, authKey
<1>2. KeyFunc(req[r])' = KeyFunc(req[r])
  BY DEF KeyFunc, authKey
<1>3. Truth(truth[r], req[r])' <=> Truth(truth[r], req[r])
  BY <1>2 DEF Truth
<1>4. ETag(truth[r])' = ETag(truth[r])
  BY DEF ETag
<1>5. Matches(answer[r].body, truth[r])' <=> Matches(answer[r].body, truth[r])
  BY DEF Matches, Blind
<1>6. Sound(req[r].entry)' <=> Sound(req[r].entry)
  BY DEF Sound, ETag
<1> QED  BY <1>2, <1>3, <1>4, <1>5, <1>6
         DEF Inv, RequestInv, Carried, Answering, Kept, Returned

(* A step keeps what the cache and the requests hold. *)
LEMMA PartsStep == Inv /\ [Next]_vars => Cached' /\ RequestInv'
<1> SUFFICES ASSUME Inv, [Next]_vars PROVE Cached' /\ RequestInv'
  OBVIOUS
<1>0. TypeOK /\ Cached /\ RequestInv
  BY DEF Inv
<1>a. setup' = setup /\ \A e : Sound(e)' <=> Sound(e)
  <2>1. setup' = setup
    BY DEF Next, RoundTrip, Send, Handle, Fail, Revalidated, Fetched, Change,
           Rotate, server, vars
  <2> QED  BY <2>1 DEF Sound, ETag
<1>b. ASSUME UNCHANGED entries PROVE Cached'
  BY <1>a, <1>b, <1>0 DEF Cached
<1>c. ASSUME NEW r \in Requests, (Carried(r) /\ Answering(r) /\ Kept(r))',
             \A x \in Requests \ {r} :
                /\ pc'[x] = pc[x] /\ req'[x] = req[x]
                /\ answer'[x] = answer[x] /\ truth'[x] = truth[x]
      PROVE  RequestInv'
  <2>1. \A x \in Requests \ {r} : (Carried(x) /\ Answering(x) /\ Kept(x))'
    BY <1>a, <1>c, OthersKept
  <2> QED  BY <1>c, <2>1 DEF RequestInv
<1>d. \A r \in Requests :
         /\ req[r] \in [method : {"GET", "POST"}, auth : Credentials,
                        url : URLs \cup {""}, entry : Entry]
         /\ answer[r] \in Answers
  BY <1>0 DEF TypeOK
<1>e. /\ DOMAIN pc = Requests /\ DOMAIN req = Requests
      /\ DOMAIN answer = Requests /\ DOMAIN truth = Requests
  BY <1>0 DEF TypeOK
<1>1. ASSUME NEW r \in Requests, NEW m \in {"GET", "POST"}, NEW a \in Credentials,
             NEW u \in URLs, Send(r, m, a, u)
      PROVE  Cached' /\ RequestInv'
  <2> DEFINE q == [method |-> m, auth |-> a, url |-> u, entry |-> None]
             p == IF m = "GET" THEN [q EXCEPT !.entry = Lookup(KeyFunc(q))] ELSE q
  <2>1. /\ pc'[r] = "sent" /\ req'[r] = p
        /\ \A x \in Requests \ {r} :
              /\ pc'[x] = pc[x] /\ req'[x] = req[x]
              /\ answer'[x] = answer[x] /\ truth'[x] = truth[x]
    BY <1>0, <1>1 DEF Send, TypeOK
  <2>2. /\ p.url = u /\ KeyFunc(p) = KeyFunc(q)
        /\ p.entry = None \/ p.entry = Lookup(KeyFunc(q))
    BY DEF KeyFunc, authKey
  <2> HIDE DEF p, q
  <2>3. Carried(r)'
    <3>1. p.entry = None \/ (Sound(p.entry) /\ p.entry.key = KeyFunc(p))
      BY <1>0, <2>2, LookupSound
    <3>2. KeyFunc(req[r])' = KeyFunc(p)
      BY <2>1 DEF KeyFunc, authKey
    <3> QED  BY <1>a, <2>1, <2>2, <3>1, <3>2 DEF Carried
  <2>4. (Answering(r) /\ Kept(r))'
    BY <2>1 DEF Answering, Kept, Returned
  <2> QED  BY <1>1, <1>b, <1>c, <2>1, <2>3, <2>4 DEF Send
<1>2. ASSUME NEW r \in Requests, Handle(r)
      PROVE  Cached' /\ RequestInv'
  <2> DEFINE q == req[r]
             full == [status |-> 200, etag |-> ETag(Body(q)), body |-> Body(q),
                      fromCache |-> FALSE]
             same == [status |-> 304, etag |-> ETag(Body(q)), body |-> <<>>,
                      fromCache |-> FALSE]
  <2>1. /\ pc[r] = "sent" /\ pc'[r] = "answered" /\ req'[r] = q
        /\ \A x \in Requests \ {r} :
              /\ pc'[x] = pc[x] /\ req'[x] = req[x]
              /\ answer'[x] = answer[x] /\ truth'[x] = truth[x]
    BY <1>0, <1>2 DEF Handle, TypeOK
  <2>2. /\ truth'[r] = Body(q)
        /\ (answer'[r] = full \/ answer'[r] = same)
    BY <1>0, <1>2 DEF Handle, TypeOK
  <2>3. /\ answer'[r].status \in {200, 304}
        /\ answer'[r].etag = ETag(Body(q))
        /\ answer'[r].status = 200 => answer'[r].body = Body(q)
    BY <2>2
  <2>4. Truth(Body(q), q)
    <3>1. q.auth \in Credentials /\ q.url \in URLs
      BY <1>0, <1>d, <2>1 DEF RequestInv, Carried
    <3> QED  BY <1>0, <3>1, ServerTypes
  <2> HIDE DEF full, same
  <2>5. KeyFunc(req[r])' = KeyFunc(q)
    BY <2>1 DEF KeyFunc, authKey
  <2>6. Truth(truth[r], req[r])' /\ ETag(truth[r])' = ETag(Body(q))
    BY <1>a, <2>2, <2>4, <2>5 DEF Truth, ETag
  <2>7. Answering(r)'
    BY <2>1, <2>2, <2>3, <2>6 DEF Answering
  <2>8. Carried(r)'
    BY <1>0, <1>a, <2>1, <2>5 DEF RequestInv, Carried
  <2>9. Kept(r)'
    BY <2>1 DEF Kept, Returned
  <2> QED  BY <1>2, <1>b, <1>c, <2>1, <2>7, <2>8, <2>9 DEF Handle
<1>3. ASSUME NEW r \in Requests, NEW status \in {0, 404}, Fail(r, status)
      PROVE  Cached' /\ RequestInv'
  <2>1. /\ pc'[r] = "idle" /\ answer'[r].status = status
        /\ \A x \in Requests \ {r} :
              /\ pc'[x] = pc[x] /\ req'[x] = req[x]
              /\ answer'[x] = answer[x] /\ truth'[x] = truth[x]
    BY <1>3, <1>e DEF Fail, Return, NoAnswer
  <2>2. (Carried(r) /\ Answering(r) /\ Kept(r))'
    BY <2>1 DEF Carried, Answering, Kept, Returned
  <2> QED  BY <1>3, <1>b, <1>c, <2>1, <2>2 DEF Fail
<1>4. ASSUME NEW r \in Requests, Revalidated(r)
      PROVE  Cached' /\ RequestInv'
  <2>1. PICK e \in Confirmed(r) :
           answer' = [answer EXCEPT ![r] = [status |-> 200, etag |-> e.etag,
                                            body |-> e.body, fromCache |-> TRUE]]
    BY <1>4 DEF Revalidated
  <2>2. /\ pc'[r] = "idle" /\ truth' = truth
        /\ pc[r] = "answered" /\ answer[r].status = 304
        /\ \A x \in Requests \ {r} :
              /\ pc'[x] = pc[x] /\ req'[x] = req[x]
              /\ answer'[x] = answer[x] /\ truth'[x] = truth[x]
    BY <1>4, <1>e, <2>1 DEF Revalidated, Return
  <2>3. answer'[r].body = e.body
    BY <1>e, <2>1
  <2>4. Sound(e) /\ e.key = KeyFunc(req[r]) /\ e.etag = answer[r].etag
    BY <1>0, <2>2, LookupSound DEF Confirmed, RequestInv, Carried
  <2>5. Truth(truth[r], req[r]) /\ answer[r].etag = ETag(truth[r])
    BY <1>0, <2>2 DEF RequestInv, Answering
  <2>6. Matches(e.body, truth[r])
    BY <1>0, <2>4, <2>5, ConfirmedBody
  <2>7. Matches(answer[r].body, truth[r])'
    BY <1>a, <2>2, <2>3, <2>6 DEF Matches, Blind
  <2>8. (Carried(r) /\ Answering(r) /\ Kept(r))'
    BY <2>2, <2>7 DEF Carried, Answering, Kept
  <2> QED  BY <1>4, <1>b, <1>c, <2>2, <2>8 DEF Revalidated
<1>5. ASSUME NEW r \in Requests, NEW size \in Sizes, Fetched(r, size)
      PROVE  Cached' /\ RequestInv'
  <2>1. /\ pc'[r] = "idle" /\ answer' = answer /\ truth' = truth
        /\ pc[r] = "answered" /\ answer[r].status = 200
        /\ \A x \in Requests \ {r} :
              /\ pc'[x] = pc[x] /\ req'[x] = req[x]
              /\ answer'[x] = answer[x] /\ truth'[x] = truth[x]
    BY <1>5, <1>e DEF Fetched, Return
  <2>2. (Carried(r) /\ Answering(r) /\ Kept(r))'
    BY <1>0, <2>1 DEF RequestInv, Carried, Answering, Kept, Matches
  <2>3. Cached'
    <3>1. CASE entries' \in Stored(NewEntry(r))
      <4>1. Sound(NewEntry(r))
        BY <2>1, FetchedSound
      <4>2. entries \in Seq(Entry) /\ Len(entries) <= maxEntries /\ Distinct(entries)
        BY <1>0, KeysDistinct DEF TypeOK
      <4>3. \A j \in 1 .. Len(entries') : Sound(entries'[j])
        BY <1>0, <3>1, <4>1, <4>2, StoreSound
      <4> QED  BY <1>a, <4>3 DEF Cached
    <3> QED  BY <1>5, <1>b, <3>1 DEF Fetched, NewEntry
  <2> QED  BY <1>c, <2>1, <2>2, <2>3
<1>6. ASSUME UNCHANGED <<entries, req, pc, answer, truth>>
      PROVE  Cached' /\ RequestInv'
  BY <1>6, <1>a, <1>b, OthersKept DEF RequestInv
<1> QED  BY <1>1, <1>2, <1>3, <1>4, <1>5, <1>6
         DEF Next, RoundTrip, Change, Rotate, vars

(* The inductive invariant holds in every reachable state. *)
LEMMA Invariance == Spec => []Inv
<1>1. Inv /\ [Next]_vars => Inv'
  BY TypeStep, PartsStep DEF Inv
<1> QED  BY <1>1, InvInit, PTL DEF Spec

-----------------------------------------------------------------------------
(* The types, for every instance: the cache never holds more than           *)
(* maxEntries entries, nor two for one key, whatever requests store at the  *)
(* same time.                                                               *)
THEOREM TypeCorrect == Spec => []TypeOK
<1>1. Inv => TypeOK
  BY DEF Inv
<1> QED  BY <1>1, Invariance, PTL

(* A caller gets the body of its URL, in the version that the server had    *)
(* when it handled the request and, with every server that is not Blind,    *)
(* of its credential, from the cache or not: there are no assumptions about *)
(* servers, tokens and interleavings.                                       *)
THEOREM BodiesAreRight == Spec => []RightBody
<1>1. Inv => RightBody
  BY DEF Inv, RequestInv, Kept, Matches, RightBody
<1> QED  BY <1>1, Invariance, PTL

=============================================================================
