--------------------------- MODULE BroadcastProofs ---------------------------
(***************************************************************************)
(* Theorems about Broadcast: the statistics count every user of the        *)
(* batches that ended once, and nobody behind the batch under way is tried *)
(* after a cancellation.                                                   *)
(***************************************************************************)
EXTENDS Broadcast, FiniteSetTheorems, SequenceTheorems, TLAPS

-----------------------------------------------------------------------------
(* Users and batches *)

People == ToSet(All) \cup ToSet(Unblocked)
UserLists == {<<>>, All, Unblocked}

\* The users of a list at some places of it.
Between(s, m, n) == {s[i] : i \in m..n}

\* A list of users is a sequence without repetitions.
LEMMA ListsAreSequences ==
  ASSUME NEW s \in UserLists
  PROVE /\ s \in Seq(People) /\ Len(s) \in Nat /\ DOMAIN s = 1..Len(s)
        /\ \A i \in 1..Len(s) : s[i] \in People
        /\ \A i, j \in 1..Len(s) : s[i] = s[j] => i = j
<1>1. ToSet(All) \subseteq People /\ ToSet(Unblocked) \subseteq People
  BY DEF People
<1>2. s \in Seq(ToSet(All)) \/ s \in Seq(ToSet(Unblocked))
  BY BroadcastAssumption, EmptySeq DEF UserLists
<1>3. s \in Seq(People)
  BY <1>1, <1>2
<1>4. Len(s) \in Nat /\ DOMAIN s = 1..Len(s) /\ \A i \in 1..Len(s) : s[i] \in People
  BY <1>3
<1>5. CASE s = <<>>
  BY <1>3, <1>4, <1>5, EmptySeq
<1>6. CASE s \in {All, Unblocked}
  BY <1>3, <1>4, <1>6, BroadcastAssumption DEF IsInjective
<1> QED BY <1>3, <1>4, <1>5, <1>6 DEF UserLists

\* What ToSet and SubSeq make of a list.
LEMMA Part ==
  ASSUME NEW s \in UserLists, NEW m \in Nat, NEW n \in Nat, n <= Len(s)
  PROVE ToSet(SubSeq(s, m + 1, n)) = Between(s, m + 1, n)
<1> DEFINE p == SubSeq(s, m + 1, n)
<1>1. \A i \in (m + 1)..n : s[i] \in People
  BY ListsAreSequences
<1>2. /\ p \in Seq(People) /\ Len(p) = IF m + 1 <= n THEN n - (m + 1) + 1 ELSE 0
      /\ \A i \in 1..n - (m + 1) + 1 : p[i] = s[m + 1 + i - 1]
  BY <1>1, SubSeqProperties
<1>3. DOMAIN p = 1..Len(p)
  BY <1>2
<1> HIDE DEF p
<1>4. CASE m + 1 <= n
  <2>1. DOMAIN p = 1..n - m /\ \A i \in 1..n - m : p[i] = s[m + i]
    BY <1>2, <1>3, <1>4
  <2>2. ASSUME NEW i \in 1..n - m PROVE p[i] \in Between(s, m + 1, n)
    <3>1. m + i \in (m + 1)..n
      OBVIOUS
    <3> QED BY <2>1, <3>1 DEF Between
  <2>3. ASSUME NEW j \in (m + 1)..n PROVE s[j] \in ToSet(p)
    <3>1. j - m \in 1..n - m /\ m + (j - m) = j
      OBVIOUS
    <3>2. p[j - m] = s[j]
      BY <2>1, <3>1
    <3> QED BY <2>1, <3>1, <3>2 DEF ToSet
  <2> QED BY <2>1, <2>2, <2>3 DEF ToSet, Between, p
<1>5. CASE ~ m + 1 <= n
  <2>1. DOMAIN p = {} /\ (m + 1)..n = {}
    BY <1>2, <1>3, <1>5
  <2> QED BY <2>1 DEF ToSet, Between, p
<1> QED BY <1>4, <1>5

\* As many users as places.
LEMMA HowMany ==
  ASSUME NEW s \in UserLists, NEW m \in Nat, NEW n \in Nat, m <= n, n <= Len(s)
  PROVE /\ IsFiniteSet(Between(s, m + 1, n))
        /\ Cardinality(Between(s, m + 1, n)) = n - m
<1> DEFINE D == (m + 1)..n
           B == Between(s, m + 1, n)
           f == [i \in D |-> s[i]]
<1>1. \A i, j \in D : s[i] = s[j] => i = j
  BY ListsAreSequences
<1>2. f \in [D -> B]
  BY DEF Between
<1>3. f \in Injection(D, B)
  BY <1>1, <1>2 DEF Injection, IsInjective
<1>4. f \in Surjection(D, B)
  BY <1>2 DEF Surjection, Between
<1>5. ExistsBijection(D, B)
  BY <1>3, <1>4 DEF ExistsBijection, Bijection
<1>6. IsFiniteSet(D) /\ Cardinality(D) = n - m
  <2>1. m + 1 \in Int /\ n \in Int
    OBVIOUS
  <2>2. IsFiniteSet(D) /\ Cardinality(D) = IF m + 1 > n THEN 0 ELSE n - (m + 1) + 1
    BY <2>1, FS_Interval
  <2> QED BY <2>2
<1> HIDE DEF D, B
<1>7. IsFiniteSet(B) /\ Cardinality(B) = Cardinality(D)
  BY <1>5, <1>6, FS_Bijection
<1> QED BY <1>6, <1>7 DEF B

-----------------------------------------------------------------------------
(* One broadcast *)

LeftSet == UNION {[S -> Nat] : S \in SUBSET People}
CastSet ==
  [at : {"none", "query", "next", "sending", "clear", "done", "lost"}, kind : {"bot", "api"},
   admin : Admins \cup {Null}, users : UserLists, from : Nat, left : LeftSet, ok : SUBSET People,
   sent : Nat, failed : Nat, cancelled : BOOLEAN]

\* A broadcast c that has tried the users t and was cancelled after z: what is
\* counted are the users before the batch under way, and of that batch those who
\* are no longer waited for have been tried.
Fine(c, t, z) ==
  /\ c \in CastSet /\ t \subseteq People /\ z \in Nat \cup {Null}
  /\ c.from <= Len(c.users) /\ c.sent + c.failed = c.from
  /\ c.at \in {"none", "query", "lost"} =>
       c.users = <<>> /\ c.from = 0 /\ ~ c.cancelled /\ z = Null
  /\ c.at # "sending" =>
       DOMAIN c.left = {} /\ c.ok = {} /\ t = Between(c.users, 1, c.from)
  /\ c.at = "sending" =>
       LET batch == Between(c.users, c.from + 1, Begun(c)) IN
       /\ c.from < Len(c.users)
       /\ DOMAIN c.left \subseteq batch /\ c.ok \subseteq batch
       /\ batch \ DOMAIN c.left \subseteq t
       /\ Between(c.users, 1, c.from) \subseteq t /\ t \subseteq Between(c.users, 1, Begun(c))
  /\ \A u \in DOMAIN c.left : c.left[u] \in 0..Tries(c) - 1
  /\ c.at \in {"clear", "done"} /\ ~ c.cancelled => c.from = Len(c.users)
  /\ z # Null => c.cancelled /\ Begun(c) <= z /\ z <= Len(c.users)

Inv ==
  /\ cast \in [Broadcasts -> CastSet] /\ tried \in [Broadcasts -> SUBSET People]
  /\ stop \in [Broadcasts -> Nat \cup {Null}]
  /\ \A b \in Broadcasts : Fine(cast[b], tried[b], stop[b])
  /\ manager \in Broadcasts \cup {Null}
  /\ state \in [Admins -> {"none", "message"}] /\ restarts \in 0..MaxRestarts

\* The empty function, of nobody who is still waited for.
LEMMA NobodyLeft == <<>> \in LeftSet /\ DOMAIN <<>> = {}
<1>1. <<>> \in Seq(Nat) /\ Len(<<>>) = 0
  BY EmptySeq
<1>2. DOMAIN <<>> = 1..0
  BY <1>1
<1>3. <<>> \in [{} -> Nat]
  BY <1>1, <1>2
<1> QED BY <1>2, <1>3 DEF LeftSet

\* A broadcast that nobody has started.
LEMMA NoCastFine ==
  ASSUME NEW c \in {NoCast, [NoCast EXCEPT !.at = "lost"]}
  PROVE Fine(c, {}, Null)
<1>1. /\ c.at \in {"none", "lost"} /\ c.kind = "bot" /\ c.admin = Null /\ c.users = <<>> /\ c.from = 0
      /\ c.left = <<>> /\ c.ok = {} /\ c.sent = 0 /\ c.failed = 0 /\ c.cancelled = FALSE
      /\ c \in CastSet
  <2>1. NoCast \in CastSet
    BY NobodyLeft DEF NoCast, CastSet, UserLists
  <2>2. CASE c = NoCast
    BY <2>1, <2>2 DEF NoCast
  <2>3. CASE c = [NoCast EXCEPT !.at = "lost"]
    <3>1. c \in CastSet
      BY <2>1, <2>3 DEF CastSet
    <3> QED BY <2>3, <3>1 DEF NoCast
  <2> QED BY <2>2, <2>3
<1>2. Between(c.users, 1, c.from) = {}
  BY <1>1 DEF Between
<1>3. Len(c.users) = 0 /\ DOMAIN c.left = {}
  BY <1>1, NobodyLeft, EmptySeq
<1> QED BY <1>1, <1>2, <1>3 DEF Fine

\* How far a batch goes.
LEMMA BatchEnds ==
  ASSUME NEW c \in CastSet, c.from <= Len(c.users)
  PROVE /\ Size(c) \in Nat \ {0} /\ Begun(c) \in Nat /\ Len(c.users) \in Nat
        /\ c.from <= Begun(c) /\ Begun(c) <= Len(c.users)
        /\ c.at # "sending" => Begun(c) = c.from
        /\ c.at = "sending" => Batch(c) = Between(c.users, c.from + 1, Begun(c))
        /\ Smaller(c.from + Size(c), Len(c.users)) \in Nat
        /\ c.from <= Smaller(c.from + Size(c), Len(c.users))
        /\ Smaller(c.from + Size(c), Len(c.users)) <= Len(c.users)
<1>1. c.users \in UserLists /\ c.from \in Nat /\ Len(c.users) \in Nat
  BY ListsAreSequences DEF CastSet
<1>2. Size(c) \in Nat \ {0}
  BY BroadcastAssumption DEF Size
<1> DEFINE n == Smaller(c.from + Size(c), Len(c.users))
<1>3. n \in Nat /\ c.from <= n /\ n <= Len(c.users)
  BY <1>1, <1>2 DEF Smaller
<1> HIDE DEF n
<1>4. Batch(c) = Between(c.users, c.from + 1, n)
  BY <1>1, <1>3, Part DEF Batch, n
<1> QED BY <1>1, <1>2, <1>3, <1>4 DEF Begun, n

\* One broadcast changes, the others stay as they are.
LEMMA OneChanges ==
  ASSUME Inv, NEW b \in Broadcasts, NEW c, NEW t, NEW z, Fine(c, t, z),
         cast' = [cast EXCEPT ![b] = c], tried' = [tried EXCEPT ![b] = t],
         stop' = [stop EXCEPT ![b] = z], manager' \in Broadcasts \cup {Null},
         state' \in [Admins -> {"none", "message"}], UNCHANGED restarts
  PROVE Inv'
<1>1. c \in CastSet /\ t \in SUBSET People /\ z \in Nat \cup {Null}
  BY DEF Fine
<1>2. /\ cast' \in [Broadcasts -> CastSet] /\ tried' \in [Broadcasts -> SUBSET People]
      /\ stop' \in [Broadcasts -> Nat \cup {Null}]
  BY <1>1 DEF Inv
<1>3. ASSUME NEW d \in Broadcasts PROVE Fine(cast'[d], tried'[d], stop'[d])
  <2>1. CASE d = b
    <3>1. cast'[d] = c /\ tried'[d] = t /\ stop'[d] = z
      BY <2>1 DEF Inv
    <3> QED BY <3>1
  <2>2. CASE d # b
    <3>1. cast'[d] = cast[d] /\ tried'[d] = tried[d] /\ stop'[d] = stop[d]
      BY <2>2 DEF Inv
    <3> QED BY <3>1 DEF Inv
  <2> QED BY <2>1, <2>2
<1> QED BY <1>2, <1>3 DEF Inv

\* The broadcasts begin so.
LEMMA InitInv == Init => Inv
<1> SUFFICES ASSUME Init PROVE Inv
  OBVIOUS
<1>2. Fine(NoCast, {}, Null)
  BY NoCastFine
<1>3. NoCast \in CastSet
  BY <1>2 DEF Fine
<1>4. restarts \in 0..MaxRestarts
  BY BroadcastAssumption DEF Init
<1> QED BY <1>2, <1>3, <1>4 DEF Init, Inv

\* The fields of a broadcast, one by one.
LEMMA Fields ==
  ASSUME NEW c \in CastSet
  PROVE /\ c.at \in {"none", "query", "next", "sending", "clear", "done", "lost"}
        /\ c.kind \in {"bot", "api"} /\ c.admin \in Admins \cup {Null} /\ c.users \in UserLists
        /\ c.from \in Nat /\ c.left \in LeftSet /\ c.ok \subseteq People /\ c.sent \in Nat
        /\ c.failed \in Nat /\ c.cancelled \in BOOLEAN
        /\ DOMAIN c = {"at", "kind", "admin", "users", "from", "left", "ok", "sent", "failed",
                       "cancelled"}
BY DEF CastSet

\* A broadcast goes from one place to another, neither of which sends.
LEMMA Moved ==
  ASSUME NEW c, NEW t, NEW z, Fine(c, t, z), c.at # "sending",
         NEW p \in {"query", "clear", "done"}, p = "query" => c.at = "none",
         p # "query" => c.cancelled \/ c.from = Len(c.users)
  PROVE Fine([c EXCEPT !.at = p], t, z)
<1> DEFINE k == [c EXCEPT !.at = p]
<1>1. c \in CastSet
  BY DEF Fine
<1>2. /\ k \in CastSet /\ k.at = p /\ k.kind = c.kind /\ k.users = c.users /\ k.from = c.from
      /\ k.left = c.left /\ k.ok = c.ok /\ k.sent = c.sent /\ k.failed = c.failed
      /\ k.cancelled = c.cancelled
  BY <1>1 DEF CastSet
<1>3. Begun(k) = k.from /\ Begun(c) = c.from
  BY <1>2 DEF Begun
<1>4. Tries(k) = Tries(c)
  BY <1>2 DEF Tries
<1> HIDE DEF k
<1> QED BY <1>1, <1>2, <1>3, <1>4 DEF Fine, k

\* A broadcast that was not under way gets its users.
LEMMA Begins ==
  ASSUME NEW c, NEW t, NEW z, Fine(c, t, z), c.at \in {"none", "query"},
         NEW s \in {All, Unblocked}, NEW kind \in {"bot", "api"}
  PROVE Fine([c EXCEPT !.at = "next", !.kind = kind, !.users = s], t, z)
<1> DEFINE k == [c EXCEPT !.at = "next", !.kind = kind, !.users = s]
<1>1. c \in CastSet /\ s \in UserLists
  BY DEF Fine, UserLists
<1>2. /\ k \in CastSet /\ k.at = "next" /\ k.kind = kind /\ k.users = s /\ k.from = c.from
      /\ k.left = c.left /\ k.ok = c.ok /\ k.sent = c.sent /\ k.failed = c.failed
      /\ k.cancelled = c.cancelled
  BY <1>1 DEF CastSet
<1>3. c.from = 0 /\ ~ c.cancelled /\ z = Null /\ t = Between(c.users, 1, 0) /\ DOMAIN c.left = {}
      /\ c.ok = {} /\ c.sent + c.failed = 0 /\ t \subseteq People
  BY DEF Fine
<1>4. t = Between(s, 1, 0) /\ Len(s) \in Nat
  BY <1>1, <1>3, ListsAreSequences DEF Between
<1> HIDE DEF k
<1> QED BY <1>1, <1>2, <1>3, <1>4 DEF Fine, k

\* A batch begins.
LEMMA BatchBegins ==
  ASSUME NEW c, NEW t, NEW z, Fine(c, t, z), c.at = "next", ~ Stopped(c)
  PROVE Fine([c EXCEPT !.at = "sending", !.ok = {}, !.left = [u \in Batch(c) |-> 0]], t, z)
<1> DEFINE l == [u \in Batch(c) |-> 0]
           k == [c EXCEPT !.at = "sending", !.ok = {}, !.left = l]
           n == Smaller(c.from + Size(c), Len(c.users))
<1>1. c \in CastSet /\ c.from <= Len(c.users) /\ c.users \in UserLists /\ c.from \in Nat
  BY Fields DEF Fine
<1>2. n \in Nat /\ c.from <= n /\ n <= Len(c.users) /\ Len(c.users) \in Nat
  BY <1>1, BatchEnds
<1>3. Batch(c) = Between(c.users, c.from + 1, n)
  BY <1>1, <1>2, Part DEF Batch
<1>4. Batch(c) \subseteq People
  BY <1>1, <1>2, <1>3, ListsAreSequences DEF Between
<1>5. l \in LeftSet
  BY <1>4 DEF LeftSet
<1>6. DOMAIN l = Batch(c) /\ \A u \in Batch(c) : l[u] = 0
  OBVIOUS
<1> HIDE DEF l
<1>7. /\ k \in CastSet /\ k.at = "sending" /\ k.kind = c.kind /\ k.users = c.users
      /\ k.from = c.from /\ k.left = l /\ k.ok = {} /\ k.sent = c.sent /\ k.failed = c.failed
      /\ k.cancelled = c.cancelled
  BY <1>1, <1>5 DEF CastSet
<1> HIDE DEF k
<1>8. Begun(k) = n
  BY <1>7 DEF Begun, Size
<1>9. Tries(k) \in Nat \ {0}
  BY BroadcastAssumption DEF Tries
<1>10. c.from < Len(c.users) /\ ~ c.cancelled
  BY <1>1, <1>2 DEF Stopped
<1>11. z = Null
  BY <1>10 DEF Fine
<1>12. t = Between(c.users, 1, c.from) /\ t \subseteq People /\ c.sent + c.failed = c.from
  BY DEF Fine
<1>13. t \subseteq Between(c.users, 1, n)
  BY <1>1, <1>2, <1>12 DEF Between
<1> HIDE DEF n
<1> QED BY <1>1, <1>2, <1>3, <1>6, <1>7, <1>8, <1>9, <1>10, <1>11, <1>12, <1>13 DEF Fine, k, l

\* A user of the batch is tried, and answered or tried again.
LEMMA Tried ==
  ASSUME NEW c, NEW t, NEW z, Fine(c, t, z), c.at = "sending", NEW u \in DOMAIN c.left,
         NEW l \in LeftSet, NEW o \in {c.ok, c.ok \cup {u}},
         DOMAIN l \in {DOMAIN c.left, DOMAIN c.left \ {u}},
         \A v \in DOMAIN l : l[v] \in 0..Tries(c) - 1
  PROVE Fine([c EXCEPT !.left = l, !.ok = o], t \cup {u}, z)
<1> DEFINE k == [c EXCEPT !.left = l, !.ok = o]
           batch == Between(c.users, c.from + 1, Begun(c))
<1>1. c \in CastSet /\ c.from <= Len(c.users) /\ c.users \in UserLists /\ c.from \in Nat
      /\ c.ok \subseteq People
  BY Fields DEF Fine
<1>2. Begun(c) \in Nat /\ c.from <= Begun(c) /\ Begun(c) <= Len(c.users) /\ Len(c.users) \in Nat
  BY <1>1, BatchEnds
<1>3. batch \subseteq Between(c.users, 1, Begun(c)) /\ batch \subseteq People
  BY <1>1, <1>2, ListsAreSequences DEF Between
<1>4. DOMAIN c.left \subseteq batch /\ u \in batch
  BY DEF Fine
<1>5. o \subseteq People /\ o \subseteq batch
  BY <1>1, <1>3, <1>4 DEF Fine
<1>6. /\ k \in CastSet /\ k.at = "sending" /\ k.kind = c.kind /\ k.users = c.users
      /\ k.from = c.from /\ k.left = l /\ k.ok = o /\ k.sent = c.sent /\ k.failed = c.failed
      /\ k.cancelled = c.cancelled
  BY <1>1, <1>5 DEF CastSet
<1> HIDE DEF k
<1>7. Begun(k) = Begun(c) /\ Tries(k) = Tries(c)
  BY <1>6 DEF Begun, Size, Tries
<1>8. /\ batch \ DOMAIN l \subseteq t \cup {u} /\ t \cup {u} \subseteq Between(c.users, 1, Begun(c))
      /\ t \cup {u} \subseteq People /\ Between(c.users, 1, c.from) \subseteq t \cup {u}
      /\ DOMAIN l \subseteq batch
  BY <1>3, <1>4 DEF Fine
<1>9. /\ z \in Nat \cup {Null} /\ c.from < Len(c.users) /\ c.sent + c.failed = c.from
      /\ z # Null => c.cancelled /\ Begun(c) <= z /\ z <= Len(c.users)
  BY DEF Fine
<1> HIDE DEF batch
<1> QED BY <1>1, <1>5, <1>6, <1>7, <1>8, <1>9 DEF Fine, k, batch

\* A batch ends, and its users are counted.
LEMMA BatchCounted ==
  ASSUME NEW c, NEW t, NEW z, Fine(c, t, z), c.at = "sending", c.left = <<>>
  PROVE Fine([c EXCEPT !.at = "next", !.from = Begun(c), !.ok = {},
                       !.sent = c.sent + Cardinality(c.ok),
                       !.failed = c.failed + Cardinality(Batch(c) \ c.ok)], t, z)
<1> DEFINE n == Begun(c)
           i == c.sent + Cardinality(c.ok)
           j == c.failed + Cardinality(Batch(c) \ c.ok)
           k == [c EXCEPT !.at = "next", !.from = n, !.ok = {}, !.sent = i, !.failed = j]
<1>1. /\ c \in CastSet /\ c.from <= Len(c.users) /\ c.users \in UserLists /\ c.from \in Nat
      /\ c.sent \in Nat /\ c.failed \in Nat
  BY Fields DEF Fine
<1>2. /\ n \in Nat /\ c.from <= n /\ n <= Len(c.users) /\ Len(c.users) \in Nat
      /\ Batch(c) = Between(c.users, c.from + 1, n)
  BY <1>1, BatchEnds
<1>3. IsFiniteSet(Batch(c)) /\ Cardinality(Batch(c)) = n - c.from
  BY <1>1, <1>2, HowMany
<1>4. c.ok \subseteq Batch(c)
  BY <1>2 DEF Fine
<1>5. /\ IsFiniteSet(c.ok) /\ Cardinality(c.ok) \in Nat
      /\ IsFiniteSet(Batch(c) \ c.ok) /\ Cardinality(Batch(c) \ c.ok) \in Nat
  BY <1>3, <1>4, FS_Subset, FS_CardinalityType
<1>6. Cardinality(Batch(c) \ c.ok) = Cardinality(Batch(c)) - Cardinality(c.ok)
  <2>1. Batch(c) \cap c.ok = c.ok
    BY <1>4
  <2>2. Cardinality(Batch(c) \ c.ok) = Cardinality(Batch(c)) - Cardinality(Batch(c) \cap c.ok)
    BY <1>3, FS_Difference
  <2> QED BY <2>1, <2>2
<1>7. i \in Nat /\ j \in Nat /\ i + j = n
  <2>1. c.sent + c.failed = c.from
    BY DEF Fine
  <2> DEFINE x == Cardinality(c.ok)
             y == Cardinality(Batch(c) \ c.ok)
             v == c.sent
             w == c.failed
             f == c.from
  <2>2. /\ x \in Nat /\ y \in Nat /\ v \in Nat /\ w \in Nat /\ f \in Nat /\ n \in Nat
        /\ v + w = f /\ y = (n - f) - x
    BY <1>1, <1>2, <1>3, <1>5, <1>6, <2>1
  <2>3. i = v + x /\ j = w + y
    OBVIOUS
  <2> HIDE DEF x, y, v, w, f, n, i, j
  <2>4. i + j = n
    BY <2>2, <2>3
  <2>5. i \in Nat /\ j \in Nat
    BY <2>2, <2>3
  <2> QED BY <2>4, <2>5
<1>8. t = Between(c.users, 1, n)
  <2>1. /\ Batch(c) \subseteq t /\ Between(c.users, 1, c.from) \subseteq t
        /\ t \subseteq Between(c.users, 1, n)
    BY <1>2, NobodyLeft DEF Fine
  <2>2. Between(c.users, 1, n) \subseteq Between(c.users, 1, c.from) \cup Batch(c)
    BY <1>1, <1>2 DEF Between
  <2> QED BY <2>1, <2>2
<1>9. /\ t \subseteq People /\ z \in Nat \cup {Null} /\ DOMAIN c.left = {}
      /\ z # Null => c.cancelled /\ n <= z /\ z <= Len(c.users)
  BY NobodyLeft DEF Fine
<1> HIDE DEF n, i, j
<1>10. /\ k \in CastSet /\ k.at = "next" /\ k.kind = c.kind /\ k.users = c.users
       /\ k.from = n /\ k.left = c.left /\ k.ok = {} /\ k.sent = i /\ k.failed = j
       /\ k.cancelled = c.cancelled
  BY <1>1, <1>2, <1>7 DEF CastSet
<1> HIDE DEF k
<1>11. Begun(k) = n
  BY <1>10 DEF Begun
<1>12. Fine(k, t, z)
  BY <1>1, <1>2, <1>7, <1>8, <1>9, <1>10, <1>11 DEF Fine
<1> QED BY <1>12 DEF k, n, i, j

\* A broadcast is cancelled, again or for the first time.
LEMMA Stops ==
  ASSUME NEW c, NEW t, NEW z, Fine(c, t, z), c.at \in {"next", "sending"}
  PROVE Fine([c EXCEPT !.cancelled = TRUE], t, IF z = Null THEN Begun(c) ELSE z)
<1> DEFINE k == [c EXCEPT !.cancelled = TRUE]
           y == IF z = Null THEN Begun(c) ELSE z
<1>1. c \in CastSet /\ c.from <= Len(c.users)
  BY DEF Fine
<1>2. Begun(c) \in Nat /\ Begun(c) <= Len(c.users)
  BY <1>1, BatchEnds
<1>3. y \in Nat \cup {Null} /\ Begun(c) <= y /\ y <= Len(c.users)
  BY <1>2 DEF Fine
<1> HIDE DEF y
<1>4. /\ k \in CastSet /\ k.at = c.at /\ k.kind = c.kind /\ k.users = c.users
      /\ k.from = c.from /\ k.left = c.left /\ k.ok = c.ok /\ k.sent = c.sent
      /\ k.failed = c.failed /\ k.cancelled = TRUE
  BY <1>1 DEF CastSet
<1> HIDE DEF k
<1>5. Begun(k) = Begun(c) /\ Tries(k) = Tries(c)
  BY <1>4 DEF Begun, Size, Tries
<1>6. Fine(k, t, y)
  BY <1>3, <1>4, <1>5 DEF Fine
<1> QED BY <1>6 DEF k, y

-----------------------------------------------------------------------------
(* All broadcasts *)

\* Every step keeps every broadcast fine.
LEMMA StepInv == Inv /\ [Next]_vars => Inv'
<1> SUFFICES ASSUME Inv, [Next]_vars PROVE Inv'
  OBVIOUS
<1>0. /\ cast \in [Broadcasts -> CastSet] /\ tried \in [Broadcasts -> SUBSET People]
      /\ stop \in [Broadcasts -> Nat \cup {Null}] /\ state \in [Admins -> {"none", "message"}]
      /\ manager \in Broadcasts \cup {Null} /\ restarts \in 0..MaxRestarts
      /\ \A b \in Broadcasts : Fine(cast[b], tried[b], stop[b])
  BY DEF Inv
<1>o. ASSUME NEW b \in Broadcasts, NEW c, Fine(c, tried[b], stop[b]),
             cast' = [cast EXCEPT ![b] = c], UNCHANGED <<tried, stop, restarts>>,
             manager' \in Broadcasts \cup {Null}, state' \in [Admins -> {"none", "message"}]
      PROVE Inv'
  <2>1. tried' = [tried EXCEPT ![b] = tried[b]] /\ stop' = [stop EXCEPT ![b] = stop[b]]
    BY <1>0, <1>o
  <2> DEFINE t == tried[b]
             z == stop[b]
  <2>2. Fine(c, t, z) /\ cast' = [cast EXCEPT ![b] = c] /\ UNCHANGED restarts
        /\ tried' = [tried EXCEPT ![b] = t] /\ stop' = [stop EXCEPT ![b] = z]
    BY <1>o, <2>1
  <2> HIDE DEF t, z
  <2> QED BY <1>o, <2>2, OneChanges
<1>1. ASSUME NEW a \in Admins, Prompt(a) PROVE Inv'
  <2>1. state' \in [Admins -> {"none", "message"}]
    BY <1>0, <1>1 DEF Prompt
  <2> QED BY <1>0, <1>1, <2>1 DEF Prompt, Inv
<1>2. ASSUME NEW a \in Admins, NEW b \in Broadcasts, Start(a, b) PROVE Inv'
  <2> DEFINE k == [cast[b] EXCEPT !.at = "query", !.admin = a]
  <2>1. cast' = [cast EXCEPT ![b] = k] /\ cast[b].at = "none"
        /\ UNCHANGED <<manager, state, tried, stop, restarts>>
    BY <1>0, <1>2 DEF Start
  <2>2. cast[b] \in CastSet /\ Fine(cast[b], tried[b], stop[b])
    BY <1>0
  <2>3. /\ k \in CastSet /\ k.at = "query" /\ k.kind = cast[b].kind /\ k.users = cast[b].users
        /\ k.from = cast[b].from /\ k.left = cast[b].left /\ k.ok = cast[b].ok
        /\ k.sent = cast[b].sent /\ k.failed = cast[b].failed /\ k.cancelled = cast[b].cancelled
    BY <2>2 DEF CastSet
  <2> HIDE DEF k
  <2>4. Begun(k) = cast[b].from /\ Begun(cast[b]) = cast[b].from /\ Tries(k) = Tries(cast[b])
    BY <2>1, <2>3 DEF Begun, Tries
  <2>5. Fine(k, tried[b], stop[b])
    BY <2>1, <2>2, <2>3, <2>4 DEF Fine
  <2> QED BY <1>0, <1>o, <2>1, <2>5
<1>3. ASSUME NEW b \in Broadcasts, Manage(b) PROVE Inv'
  <2>1. cast[b].at = "query" /\ UNCHANGED <<state, tried, stop, restarts>>
    BY <1>3 DEF Manage
  <2>2. Fine(cast[b], tried[b], stop[b]) /\ cast[b] \in CastSet /\ cast[b].from = Len(cast[b].users)
    BY <1>0, <2>1, EmptySeq DEF Fine
  <2>3. CASE cast' = [cast EXCEPT ![b].at = "next", ![b].users = All] /\ manager' = b
    <3> DEFINE k == [cast[b] EXCEPT !.at = "next", !.kind = cast[b].kind, !.users = All]
    <3>1. cast[b].kind \in {"bot", "api"}
      BY <2>2, Fields
    <3>2. Fine(k, tried[b], stop[b])
      BY <2>1, <2>2, <3>1, Begins
    <3>3. [cast[b] EXCEPT !.at = "next", !.users = All] = k
      BY <2>2 DEF CastSet
    <3>4. cast' = [cast EXCEPT ![b] = k]
      BY <1>0, <2>3, <3>3
    <3> HIDE DEF k
    <3> QED BY <1>0, <1>o, <2>1, <2>3, <3>2, <3>4
  <2>4. CASE Goto(b, "clear") /\ UNCHANGED manager
    <3> DEFINE k == [cast[b] EXCEPT !.at = "clear"]
    <3>1. Fine(k, tried[b], stop[b])
      BY <2>1, <2>2, Moved
    <3>2. cast' = [cast EXCEPT ![b] = k]
      BY <1>0, <2>4 DEF Goto
    <3> HIDE DEF k
    <3> QED BY <1>0, <1>o, <2>1, <2>4, <3>1, <3>2
  <2> QED BY <1>3, <2>3, <2>4 DEF Manage
<1>4. ASSUME NEW b \in Broadcasts, Clear(b) \/ Fail(b) PROVE Inv'
  <2> DEFINE k == [cast[b] EXCEPT !.at = "done"]
  <2>1. cast[b].at = "clear" /\ cast' = [cast EXCEPT ![b] = k]
        /\ UNCHANGED <<manager, tried, stop, restarts>>
    BY <1>0, <1>4 DEF Clear, Fail, Goto
  <2>2. Fine(cast[b], tried[b], stop[b])
    BY <1>0
  <2>3. cast[b].cancelled \/ cast[b].from = Len(cast[b].users)
    BY <2>1, <2>2 DEF Fine
  <2>4. Fine(k, tried[b], stop[b])
    BY <2>1, <2>2, <2>3, Moved
  <2>5. state' \in [Admins -> {"none", "message"}]
    BY <1>0, <1>4 DEF Clear, Fail
  <2> HIDE DEF k
  <2> QED BY <1>0, <1>o, <2>1, <2>4, <2>5
<1>5. ASSUME NEW b \in Broadcasts, StartApi(b) PROVE Inv'
  <2> DEFINE k == [cast[b] EXCEPT !.at = "next", !.kind = "api", !.users = Unblocked]
  <2>1. cast[b].at = "none" /\ cast' = [cast EXCEPT ![b] = k]
        /\ UNCHANGED <<manager, state, tried, stop, restarts>>
    BY <1>0, <1>5 DEF StartApi
  <2>2. Fine(k, tried[b], stop[b])
    BY <1>0, <2>1, Begins
  <2> HIDE DEF k
  <2> QED BY <1>0, <1>o, <2>1, <2>2
<1>6. ASSUME NEW b \in Broadcasts, NextBatch(b) PROVE Inv'
  <2> DEFINE c == cast[b]
  <2>1. c.at = "next" /\ UNCHANGED <<manager, state, tried, stop, restarts>>
    BY <1>6 DEF NextBatch
  <2>2. Fine(c, tried[b], stop[b]) /\ c \in CastSet
    BY <1>0
  <2>3. CASE Stopped(c)
    <3>1. PICK p \in {"clear", "done"} : cast' = [cast EXCEPT ![b] = [c EXCEPT !.at = p]]
      BY <1>0, <1>6, <2>3 DEF NextBatch, Goto
    <3>2. c.cancelled \/ c.from = Len(c.users)
      <4>1. c.from <= Len(c.users) /\ c.from \in Nat /\ Len(c.users) \in Nat
        BY <2>2, Fields, BatchEnds DEF Fine
      <4> QED BY <2>3, <4>1 DEF Stopped
    <3>3. Fine([c EXCEPT !.at = p], tried[b], stop[b])
      BY <2>1, <2>2, <3>2, Moved
    <3> HIDE DEF c
    <3> QED BY <1>0, <1>o, <2>1, <3>1, <3>3
  <2>4. CASE ~ Stopped(c)
    <3> DEFINE k == [c EXCEPT !.at = "sending", !.ok = {}, !.left = [u \in Batch(c) |-> 0]]
    <3>1. cast' = [cast EXCEPT ![b] = k]
      BY <1>0, <1>6, <2>4 DEF NextBatch
    <3>2. Fine(k, tried[b], stop[b])
      BY <2>1, <2>2, <2>4, BatchBegins
    <3> HIDE DEF k
    <3> QED BY <1>0, <1>o, <2>1, <3>1, <3>2
  <2> QED BY <2>3, <2>4
<1>7. ASSUME NEW b \in Broadcasts, EndBatch(b) PROVE Inv'
  <2> DEFINE c == cast[b]
             k == [c EXCEPT !.at = "next", !.from = Begun(c), !.ok = {},
                            !.sent = c.sent + Cardinality(c.ok),
                            !.failed = c.failed + Cardinality(Batch(c) \ c.ok)]
  <2>1. c.at = "sending" /\ c.left = <<>> /\ UNCHANGED <<manager, state, tried, stop, restarts>>
    BY <1>7 DEF EndBatch
  <2>2. cast' = [cast EXCEPT ![b] = k]
    BY <1>0, <1>7 DEF EndBatch, CastSet
  <2>3. Fine(k, tried[b], stop[b])
    BY <1>0, <2>1, BatchCounted
  <2> HIDE DEF k
  <2> QED BY <1>0, <1>o, <2>1, <2>2, <2>3
<1>8. ASSUME NEW b \in Broadcasts, NEW u \in DOMAIN cast[b].left, SendMessage(b, u) PROVE Inv'
  <2> DEFINE c == cast[b]
             l == [v \in DOMAIN c.left \ {u} |-> c.left[v]]
             m == [c.left EXCEPT ![u] = c.left[u] + 1]
  <2>1. /\ c.at = "sending" /\ tried' = [tried EXCEPT ![b] = tried[b] \cup {u}]
        /\ UNCHANGED <<manager, state, stop, restarts>>
    BY <1>0, <1>8 DEF SendMessage
  <2>2. Fine(c, tried[b], stop[b]) /\ c \in CastSet /\ c.left \in LeftSet
    BY <1>0, Fields
  <2>3. \A v \in DOMAIN c.left : c.left[v] \in 0..Tries(c) - 1
    BY <2>2 DEF Fine
  <2>4. PICK S \in SUBSET People : c.left \in [S -> Nat]
    BY <2>2 DEF LeftSet
  <2>s. stop' = [stop EXCEPT ![b] = stop[b]]
    BY <1>0, <2>1
  <2>a. ASSUME NEW o \in {c.ok, c.ok \cup {u}}, NEW f \in {l, m},
               f = m => c.left[u] + 1 < Tries(c),
               cast' = [cast EXCEPT ![b] = [c EXCEPT !.left = f, !.ok = o]]
        PROVE Inv'
    <3>1. f \in LeftSet
      <4>1. l \in [S \ {u} -> Nat] /\ m \in [S -> Nat]
        BY <2>4
      <4> QED BY <2>4, <4>1 DEF LeftSet
    <3>2. Tries(c) \in Nat
      BY BroadcastAssumption DEF Tries
    <3>3. /\ DOMAIN f \in {DOMAIN c.left, DOMAIN c.left \ {u}}
          /\ \A v \in DOMAIN f : f[v] \in 0..Tries(c) - 1
      <4>1. CASE f = l
        BY <2>3, <4>1
      <4>2. CASE f = m
        BY <2>3, <2>4, <2>a, <3>2, <4>2
      <4> QED BY <4>1, <4>2
    <3> DEFINE k == [c EXCEPT !.left = f, !.ok = o]
    <3>4. Fine(k, tried[b] \cup {u}, stop[b])
      <4> HIDE DEF l, m
      <4> QED BY <2>1, <2>2, <3>1, <3>3, Tried
    <3>5. cast' = [cast EXCEPT ![b] = k]
      BY <2>a
    <3> HIDE DEF k
    <3> QED BY <1>0, <2>1, <2>s, <3>4, <3>5, OneChanges
  <2>5. ASSUME NEW ok \in BOOLEAN, Answered(b, u, ok) PROVE Inv'
    <3> DEFINE o == IF ok THEN c.ok \cup {u} ELSE c.ok
    <3>1. cast' = [cast EXCEPT ![b] = [c EXCEPT !.left = l, !.ok = o]]
      BY <1>0, <2>5 DEF Answered, CastSet
    <3>2. o \in {c.ok, c.ok \cup {u}}
      OBVIOUS
    <3>3. l # m
      <4>1. u \in DOMAIN m /\ u \notin DOMAIN l
        OBVIOUS
      <4> QED BY <4>1
    <3> HIDE DEF o, l, m
    <3> QED BY <2>a, <3>1, <3>2, <3>3
  <2>6. ASSUME Again(b, u), ~ LastTry(c, u) PROVE Inv'
    <3>1. cast' = [cast EXCEPT ![b] = [c EXCEPT !.left = m, !.ok = c.ok]]
      <4>1. [c EXCEPT !.left = m, !.ok = c.ok] = [c EXCEPT !.left = m]
        BY <2>2 DEF CastSet
      <4>2. cast' = [cast EXCEPT ![b] = [c EXCEPT !.left = m]]
        BY <1>0, <2>2, <2>6 DEF Again, CastSet
      <4> QED BY <4>1, <4>2
    <3>2. c.left[u] + 1 < Tries(c)
      <4>1. c.left[u] \in Nat /\ Tries(c) \in Nat
        BY <2>4, BroadcastAssumption DEF Tries
      <4> QED BY <2>6, <4>1 DEF LastTry
    <3> HIDE DEF l, m
    <3> QED BY <2>a, <3>1, <3>2
  <2>7. (\E ok \in BOOLEAN : Answered(b, u, ok)) \/ (Again(b, u) /\ ~ LastTry(c, u))
    BY <1>8 DEF SendMessage
  <2> QED BY <2>5, <2>6, <2>7
<1>9. ASSUME NEW b \in Broadcasts, Cancelled(b), cast[b].at \in {"next", "sending"},
             UNCHANGED <<manager, state, tried, restarts>>
      PROVE Inv'
  <2> DEFINE k == [cast[b] EXCEPT !.cancelled = TRUE]
             y == IF stop[b] = Null THEN Begun(cast[b]) ELSE stop[b]
  <2>1. cast' = [cast EXCEPT ![b] = k] /\ stop' = [stop EXCEPT ![b] = y]
    BY <1>0, <1>9 DEF Cancelled
  <2>2. Fine(k, tried[b], y)
    BY <1>0, <1>9, Stops
  <2>3. tried' = [tried EXCEPT ![b] = tried[b]]
    BY <1>0, <1>9
  <2> HIDE DEF k, y
  <2> QED BY <1>0, <1>9, <2>1, <2>2, <2>3, OneChanges
<1>10. ASSUME NEW b \in Broadcasts, CancelApi(b) PROVE Inv'
  BY <1>9, <1>10 DEF CancelApi
<1>11. CASE Cancel
  BY <1>0, <1>9, <1>11 DEF Cancel
<1>12. CASE Restart
  <2> DEFINE k == [NoCast EXCEPT !.at = "lost"]
  <2>1. /\ Fine(k, {}, Null) /\ k \in CastSet /\ k.at = "lost"
    BY NoCastFine DEF Fine, NoCast
  <2> HIDE DEF k
  <2>2. /\ cast' = [b \in Broadcasts |-> IF cast[b].at \in {"none", "done"} THEN cast[b] ELSE k]
        /\ tried' = [b \in Broadcasts |-> IF cast'[b].at = "lost" THEN {} ELSE tried[b]]
        /\ stop' = [b \in Broadcasts |-> IF cast'[b].at = "lost" THEN Null ELSE stop[b]]
    BY <1>12 DEF Restart, k
  <2>3. /\ cast' \in [Broadcasts -> CastSet] /\ tried' \in [Broadcasts -> SUBSET People]
        /\ stop' \in [Broadcasts -> Nat \cup {Null}]
    BY <1>0, <2>1, <2>2
  <2>4. ASSUME NEW b \in Broadcasts PROVE Fine(cast'[b], tried'[b], stop'[b])
    <3>1. CASE cast[b].at \in {"none", "done"}
      <4>1. cast'[b] = cast[b] /\ tried'[b] = tried[b] /\ stop'[b] = stop[b]
        BY <2>2, <3>1
      <4> QED BY <1>0, <4>1
    <3>2. CASE cast[b].at \notin {"none", "done"}
      <4>1. cast'[b] = k /\ tried'[b] = {} /\ stop'[b] = Null
        BY <2>1, <2>2, <3>2
      <4> QED BY <2>1, <4>1
    <3> QED BY <3>1, <3>2
  <2>5. state' \in [Admins -> {"none", "message"}] /\ restarts' \in 0..MaxRestarts
    BY <1>0, <1>12, BroadcastAssumption DEF Restart
  <2> QED BY <1>12, <2>3, <2>4, <2>5 DEF Restart, Inv
<1>13. CASE UNCHANGED vars
  BY <1>0, <1>13 DEF vars, Inv
<1> QED BY <1>1, <1>2, <1>3, <1>4, <1>5, <1>6, <1>7, <1>8, <1>10, <1>11, <1>12, <1>13 DEF Next

\* Every broadcast is fine at every moment.
LEMMA AllFine == Spec => []Inv
BY InitInv, StepInv, PTL DEF Spec

\* The variables keep their types, however many broadcasts, users and tries.
THEOREM TypeCorrect == Spec => []TypeOK
<1>1. Inv => TypeOK
  <2> SUFFICES ASSUME Inv PROVE TypeOK
    OBVIOUS
  <2>1. ASSUME NEW b \in Broadcasts
        PROVE /\ cast[b].from \in 0..Len(cast[b].users) /\ cast[b].ok \subseteq ToSet(cast[b].users)
              /\ \A u \in DOMAIN cast[b].left : cast[b].left[u] \in 0..Tries(cast[b]) - 1
    <3> DEFINE c == cast[b]
    <3>1. c \in CastSet /\ Fine(c, tried[b], stop[b])
      BY DEF Inv
    <3>2. c.from \in Nat /\ c.from <= Len(c.users) /\ c.users \in UserLists /\ Len(c.users) \in Nat
          /\ DOMAIN c.users = 1..Len(c.users)
      BY <3>1, Fields, ListsAreSequences DEF Fine
    <3>3. Begun(c) \in Nat /\ Begun(c) <= Len(c.users)
      BY <3>1, <3>2, BatchEnds
    <3>4. Between(c.users, c.from + 1, Begun(c)) \subseteq ToSet(c.users)
      BY <3>2, <3>3 DEF Between, ToSet
    <3> QED BY <3>1, <3>2, <3>4 DEF Fine
  <2>2. ASSUME NEW b \in Broadcasts
        PROVE /\ cast[b].at \in {"none", "query", "next", "sending", "clear", "done", "lost"}
              /\ cast[b].kind \in {"bot", "api"} /\ cast[b].admin \in Admins \cup {Null}
              /\ cast[b].sent \in Nat /\ cast[b].failed \in Nat /\ cast[b].cancelled \in BOOLEAN
              /\ stop[b] \in Nat \cup {Null}
    BY Fields DEF Inv
  <2> QED BY <2>1, <2>2 DEF Inv, TypeOK
<1> QED BY <1>1, AllFine, PTL

\* The statistics count the users of the batches that ended, each once, and all
\* users in the end unless somebody cancelled, for any list, batch size and number
\* of tries, and however many broadcasts and restarts there are.
THEOREM Counted == Spec => []CountsAgree
<1>1. Inv => CountsAgree
  <2> SUFFICES ASSUME Inv, NEW b \in Broadcasts
               PROVE LET c == cast[b] IN
                     /\ c.sent + c.failed = c.from
                     /\ c.at # "sending" => tried[b] = First(b, c.from)
                     /\ c.at = "done" /\ ~ c.cancelled => c.from = Len(c.users)
    BY DEF CountsAgree
  <2> DEFINE c == cast[b]
  <2>1. c \in CastSet /\ Fine(c, tried[b], stop[b])
    BY DEF Inv
  <2>2. c.users \in UserLists /\ c.from \in Nat /\ c.from <= Len(c.users)
    BY <2>1, Fields DEF Fine
  <2>3. First(b, c.from) = Between(c.users, 1, c.from)
    <3>1. ToSet(SubSeq(c.users, 0 + 1, c.from)) = Between(c.users, 0 + 1, c.from)
      BY <2>2, Part
    <3> QED BY <3>1 DEF First
  <2> QED BY <2>1, <2>3 DEF Fine
<1> QED BY <1>1, AllFine, PTL

\* Nobody behind the batch under way is tried after a cancellation.
THEOREM Stopping == Spec => []CancelStops
<1>1. Inv => CancelStops
  <2> SUFFICES ASSUME Inv, NEW b \in Broadcasts, stop[b] # Null
               PROVE tried[b] \subseteq First(b, stop[b])
    BY DEF CancelStops
  <2> DEFINE c == cast[b]
             z == stop[b]
  <2>1. c \in CastSet /\ Fine(c, tried[b], z) /\ z \in Nat
    BY DEF Inv
  <2>2. c.users \in UserLists /\ c.from \in Nat /\ c.from <= Len(c.users)
    BY <2>1, Fields DEF Fine
  <2>3. Begun(c) \in Nat /\ c.from <= Begun(c) /\ Begun(c) <= Len(c.users) /\ Len(c.users) \in Nat
        /\ (c.at # "sending" => Begun(c) = c.from)
    BY <2>1, <2>2, BatchEnds
  <2>4. Begun(c) <= z /\ z <= Len(c.users)
    BY <2>1 DEF Fine
  <2>5. tried[b] \subseteq Between(c.users, 1, Begun(c))
    BY <2>1, <2>3 DEF Fine
  <2>6. Between(c.users, 1, Begun(c)) \subseteq Between(c.users, 1, z)
    BY <2>1, <2>3, <2>4 DEF Between
  <2>7. First(b, z) = Between(c.users, 1, z)
    <3>1. ToSet(SubSeq(c.users, 0 + 1, z)) = Between(c.users, 0 + 1, z)
      BY <2>1, <2>2, <2>4, Part
    <3> QED BY <3>1 DEF First
  <2> QED BY <2>5, <2>6, <2>7
<1> QED BY <1>1, AllFine, PTL

=============================================================================
