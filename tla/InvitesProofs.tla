---------------------------- MODULE InvitesProofs ----------------------------
(***************************************************************************)
(* Theorems about Invites: the first referrer stays, more is granted than  *)
(* was earned only by grants that raced, and a reward is delivered before  *)
(* it is marked and again only after a fault or beside another claim.      *)
(***************************************************************************)
EXTENDS Invites, FiniteSetTheorems, TLAPS

-----------------------------------------------------------------------------
(* Types *)

InviteStatus == {"none", "pending", "verified", "rejected"}
InviteSet == [by : Users \cup {Null}, status : InviteStatus]
RewardSet == [by : Users, fulfilled : BOOLEAN]
AdminSet == [at : {"idle", "approve", "reject", "count", "rewards", "grant"},
             of : Users \cup {Null}, verified : Nat, granted : Nat]
ClaimSet == [at : {"idle", "deliver", "fulfill"}, reward : Nat, alone : BOOLEAN]
GivenSet == [alone : Nat, beside : Nat]

\* An invite has a referrer, who is somebody else; only an approved one is
\* verified, and an approved one is there.
InviteTypes ==
  /\ invite \in [Users -> InviteSet]
  /\ \A x \in Users : Status(x) # "none" => invite[x].by \in Users /\ invite[x].by # x
  /\ \A x \in Users : Status(x) = "verified" => x \in approved
  /\ approved \subseteq {x \in Users : Status(x) # "none"} /\ IsFiniteSet(approved)
RewardTypes ==
  /\ rewards \in Seq(RewardSet) /\ given \in Seq(GivenSet) /\ Len(given) = Len(rewards)
  /\ raced \in [Users -> Nat]

\* A session deals with an invite, a reward and a referrer that are there.
StartTypes ==
  /\ start \in [Starts -> {"idle", "insert", "done"}]
  /\ \A s \in Starts : start[s] = "insert" => StartBy[s] # StartOf[s]
VerifyTypes ==
  /\ verify \in [Users -> {"idle", "check", "reject"}]
  /\ \A x \in Users : verify[x] # "idle" => Status(x) # "none"
AdminTypes ==
  /\ admin \in [Admins -> AdminSet]
  /\ \A a \in Admins : admin[a].at # "idle" =>
       admin[a].of \in Users /\ Status(admin[a].of) # "none"
ClaimTypes ==
  /\ claim \in [Claimers -> ClaimSet]
  /\ \A c \in Claimers : claim[c].at # "idle" => claim[c].reward \in 1..Len(rewards)

Types == /\ InviteTypes /\ RewardTypes /\ StartTypes /\ VerifyTypes /\ AdminTypes /\ ClaimTypes
         /\ faults \in Nat

\* The programme begins with its types.
LEMMA InitTypes == Init => Types
<1> SUFFICES ASSUME Init PROVE Types
  OBVIOUS
<1>1. InviteTypes
  BY FS_EmptySet DEF Init, InviteTypes, InviteSet, InviteStatus, NoInvite, Status
<1>2. RewardTypes
  BY DEF Init, RewardTypes
<1>3. StartTypes /\ VerifyTypes
  BY DEF Init, StartTypes, VerifyTypes
<1>4. AdminTypes /\ ClaimTypes
  BY DEF Init, AdminTypes, ClaimTypes, AdminSet, ClaimSet, Away, NoClaim
<1> QED BY <1>1, <1>2, <1>3, <1>4 DEF Init, Types

\* The verified invites of a referrer are approved ones, the rewards are positions
\* of the table: both can be counted.
LEMMA Counts ==
  ASSUME Types, NEW r
  PROVE /\ Verified(r) \in Nat /\ Granted(r) \in Nat
        /\ IsFiniteSet({x \in approved : invite[x].by = r})
        /\ Cardinality({x \in approved : invite[x].by = r}) \in Nat
        /\ Verified(r) <= Cardinality({x \in approved : invite[x].by = r})
<1> DEFINE A == {x \in approved : invite[x].by = r}
           V == {x \in Users : invite[x] = [by |-> r, status |-> "verified"]}
           G == {w \in DOMAIN rewards : rewards[w].by = r}
<1>1. IsFiniteSet(A)
  BY FS_Subset DEF Types, InviteTypes
<1>2. V \subseteq A
  BY DEF Types, InviteTypes, Status
<1>3. IsFiniteSet(V) /\ Cardinality(V) <= Cardinality(A)
  BY <1>1, <1>2, FS_Subset
<1>4. G \subseteq 1..Len(rewards) /\ Len(rewards) \in Nat
  BY DEF Types, RewardTypes
<1>5. IsFiniteSet(G)
  BY <1>4, FS_Interval, FS_Subset
<1>6. Cardinality(A) \in Nat /\ Cardinality(V) \in Nat /\ Cardinality(G) \in Nat
  BY <1>1, <1>3, <1>5, FS_CardinalityType
<1> QED BY <1>1, <1>3, <1>6 DEF Verified, Granted

\* What concerns one invite: it is there after the step and keeps its referrer,
\* and if it is verified it is approved.
LEMMA InviteWritten ==
  ASSUME Types, NEW x \in Users, Status(x) # "none", NEW s \in InviteStatus \ {"none"},
         invite' = [invite EXCEPT ![x].status = s],
         approved' \in {approved, approved \cup {x}}, s = "verified" => x \in approved'
  PROVE /\ InviteTypes'
        /\ \A y \in Users : invite'[y].by = invite[y].by
        /\ \A y \in Users : Status(y) # "none" <=> Status(y)' # "none"
<1>1. /\ invite' \in [Users -> InviteSet]
      /\ invite'[x].by = invite[x].by /\ invite'[x].status = s
      /\ \A y \in Users \ {x} : invite'[y] = invite[y]
  BY DEF Types, InviteTypes, InviteSet
<1>2. IsFiniteSet(approved') /\ approved' \subseteq Users /\ approved \subseteq approved'
  BY FS_AddElement DEF Types, InviteTypes
<1>3. \A y \in approved' : y = x \/ y \in approved
  OBVIOUS
<1> QED BY <1>1, <1>2, <1>3 DEF Types, InviteTypes, Status

\* Who was invited is still invited as long as invites are written but never
\* deleted: the sessions keep their types if what they hold does not change.
LEMMA SessionsKept ==
  ASSUME Types, \A x \in Users : Status(x) # "none" => Status(x)' # "none"
  PROVE /\ verify' = verify => VerifyTypes'
        /\ admin' = admin => AdminTypes'
        /\ claim' = claim /\ Len(rewards') >= Len(rewards) /\ Len(rewards') \in Nat
             => ClaimTypes'
        /\ start' = start => StartTypes'
<1>1. Len(rewards) \in Nat
  BY DEF Types, RewardTypes
<1> QED BY <1>1 DEF Types, VerifyTypes, AdminTypes, ClaimTypes, StartTypes, Status

\* A delivery counts for one reward.
LEMMA GiveTypes ==
  ASSUME Types, NEW w \in 1..Len(rewards), NEW alone \in BOOLEAN
  PROVE \E g \in GivenSet :
          /\ Give(w, alone) = [given EXCEPT ![w] = g]
          /\ g.alone = IF alone THEN given[w].alone + 1 ELSE given[w].alone
          /\ g.alone + g.beside > 0
<1>1. /\ given[w] \in GivenSet /\ given \in Seq(GivenSet)
  BY DEF Types, RewardTypes
<1>2. CASE alone
  <2> DEFINE g == [given[w] EXCEPT !.alone = @ + 1]
  <2>1. g \in GivenSet /\ g.alone = given[w].alone + 1 /\ g.alone + g.beside > 0
    BY <1>1 DEF GivenSet
  <2>2. Give(w, alone) = [given EXCEPT ![w] = g]
    BY <1>1, <1>2 DEF Give
  <2> HIDE DEF g
  <2> QED BY <1>2, <2>1, <2>2
<1>3. CASE ~ alone
  <2> DEFINE g == [given[w] EXCEPT !.beside = @ + 1]
  <2>1. g \in GivenSet /\ g.alone = given[w].alone /\ g.alone + g.beside > 0
    <3>1. /\ given[w].alone \in Nat /\ given[w].beside \in Nat
          /\ g.alone = given[w].alone /\ g.beside = given[w].beside + 1 /\ g \in GivenSet
      BY <1>1 DEF GivenSet
    <3> QED BY <3>1
  <2>2. Give(w, alone) = [given EXCEPT ![w] = g]
    BY <1>1, <1>3 DEF Give
  <2> HIDE DEF g
  <2> QED BY <1>3, <2>1, <2>2
<1> QED BY <1>2, <1>3

\* Every step keeps the types.
LEMMA StepTypes == Types /\ [Next]_vars => Types'
<1> SUFFICES ASSUME Types, [Next]_vars PROVE Types'
  OBVIOUS
<1> USE UsersAssumption, BoundsAssumption DEF histories
<1>0. /\ InviteTypes /\ RewardTypes /\ StartTypes /\ VerifyTypes /\ AdminTypes /\ ClaimTypes
      /\ faults \in Nat /\ Len(rewards) \in Nat
  BY DEF Types, RewardTypes
<1>t. UNCHANGED tables => InviteTypes' /\ RewardTypes'
  BY <1>0 DEF tables, InviteTypes, RewardTypes, Status
<1>i. invite' = invite => \A x \in Users : Status(x) # "none" => Status(x)' # "none"
  BY DEF Status
<1>1. ASSUME NEW s \in Starts, RecordRead(s) PROVE Types'
  <2>1. StartTypes'
    BY <1>0, <1>1 DEF RecordRead, StartTypes
  <2> QED BY <1>0, <1>1, <1>i, <1>t, <2>1, SessionsKept DEF RecordRead, tables, Types
<1>2. ASSUME NEW s \in Starts, RecordInsert(s) PROVE Types'
  <2> DEFINE x == StartBy[s]
  <2>1. x \in Users /\ StartOf[s] \in Users /\ StartOf[s] # x
    BY <1>0, <1>2 DEF RecordInsert, StartTypes
  <2>2. StartTypes'
    BY <1>0, <1>2 DEF RecordInsert, StartTypes
  <2>3. InviteTypes' /\ \A y \in Users : Status(y) # "none" => Status(y)' # "none"
    <3>1. CASE Status(x) # "none"
      BY <1>0, <1>2, <3>1 DEF RecordInsert, InviteTypes, Status
    <3>2. CASE Status(x) = "none"
      <4> DEFINE n == [by |-> StartOf[s], status |-> "pending"]
      <4>1. invite' = [invite EXCEPT ![x] = n] /\ approved' = approved
        BY <1>2, <3>2 DEF RecordInsert
      <4>2. n \in InviteSet /\ n.by = StartOf[s] /\ n.status = "pending"
        BY <2>1 DEF InviteSet, InviteStatus
      <4> HIDE DEF n, x
      <4> QED BY <1>0, <2>1, <3>2, <4>1, <4>2 DEF InviteTypes, Status
    <3> QED BY <3>1, <3>2
  <2> QED BY <1>0, <1>2, <2>2, <2>3, SessionsKept DEF RecordInsert, RewardTypes, Types
<1>3. ASSUME NEW x \in Users, VerifyRead(x) \/ VerifyCheck(x) PROVE Types'
  <2>1. VerifyTypes'
    BY <1>0, <1>3 DEF VerifyRead, VerifyCheck, VerifyTypes, tables, Status
  <2> QED BY <1>0, <1>3, <1>i, <1>t, <2>1, SessionsKept
          DEF VerifyRead, VerifyCheck, tables, Types
<1>4. ASSUME NEW x \in Users, VerifyReject(x) PROVE Types'
  <2>1. Status(x) # "none"
    BY <1>0, <1>4 DEF VerifyReject, VerifyTypes
  <2>2. /\ InviteTypes' /\ \A y \in Users : Status(y) # "none" <=> Status(y)' # "none"
    <3>1. /\ invite' = [invite EXCEPT ![x].status = "rejected"]
          /\ approved' \in {approved, approved \cup {x}}
          /\ "rejected" \in InviteStatus \ {"none"} /\ "rejected" # "verified"
      BY <1>4 DEF VerifyReject, InviteStatus
    <3> QED BY <2>1, <3>1, InviteWritten
  <2>3. VerifyTypes'
    BY <1>0, <1>4, <2>2 DEF VerifyReject, VerifyTypes
  <2> QED BY <1>0, <1>4, <2>2, <2>3, SessionsKept DEF VerifyReject, RewardTypes, Types
<1>5. ASSUME NEW a \in Admins, AdminRead(a) PROVE Types'
  <2>1. PICK x \in Users, do \in {"approve", "reject"} :
          Status(x) = "pending" /\ admin' = [admin EXCEPT ![a] = [Away EXCEPT !.at = do, !.of = x]]
    BY <1>5 DEF AdminRead
  <2> DEFINE k == [Away EXCEPT !.at = do, !.of = x]
  <2>2. k \in AdminSet /\ k.of = x
    BY DEF Away, AdminSet
  <2>3. invite' = invite
    BY <1>5 DEF AdminRead, tables
  <2>4. AdminTypes'
    <3>1. admin' = [admin EXCEPT ![a] = k]
      BY <2>1
    <3> HIDE DEF k
    <3> QED BY <1>0, <2>1, <2>2, <2>3, <3>1 DEF AdminTypes, Status
  <2> QED BY <1>0, <1>5, <1>i, <1>t, <2>4, SessionsKept DEF AdminRead, tables, Types
<1>6. ASSUME NEW a \in Admins, Reject(a) \/ Approve(a) PROVE Types'
  <2> DEFINE x == admin[a].of
  <2>1. x \in Users /\ Status(x) # "none"
    BY <1>0, <1>6 DEF Reject, Approve, AdminTypes
  <2>2. /\ InviteTypes' /\ \A y \in Users : Status(y) # "none" <=> Status(y)' # "none"
    <3>1. CASE Reject(a)
      <4>1. /\ invite' = [invite EXCEPT ![x].status = "rejected"]
            /\ approved' \in {approved, approved \cup {x}}
            /\ "rejected" \in InviteStatus \ {"none"} /\ "rejected" # "verified"
        BY <3>1 DEF Reject, InviteStatus
      <4> QED BY <2>1, <4>1, InviteWritten
    <3>2. CASE Approve(a)
      <4>1. /\ invite' = [invite EXCEPT ![x].status = "verified"]
            /\ approved' \in {approved, approved \cup {x}} /\ x \in approved'
            /\ "verified" \in InviteStatus \ {"none"}
        BY <3>2 DEF Approve, InviteStatus
      <4> QED BY <2>1, <4>1, InviteWritten
    <3> QED BY <1>6, <3>1, <3>2
  <2> DEFINE k == [admin[a] EXCEPT !.at = "count"]
  <2>k. /\ admin' = [admin EXCEPT ![a] = Away] \/ admin' = [admin EXCEPT ![a] = k]
        /\ admin[a] \in AdminSet /\ admin[a].at # "idle"
    BY <1>0, <1>6 DEF Reject, Approve, Step, AdminTypes
  <2>l. /\ Away \in AdminSet /\ Away.at = "idle"
        /\ k \in AdminSet /\ k.of = admin[a].of
    BY <2>k DEF AdminSet, Away
  <2> HIDE DEF k
  <2>3. admin' \in [Admins -> AdminSet]
    BY <1>0, <2>k, <2>l DEF AdminTypes
  <2>4. \A b \in Admins : admin'[b].at # "idle" =>
          admin[b].at # "idle" /\ admin'[b].of = admin[b].of
    BY <1>0, <2>k, <2>l DEF AdminTypes
  <2>5. AdminTypes'
    BY <1>0, <2>2, <2>3, <2>4 DEF AdminTypes
  <2> QED BY <1>0, <1>6, <2>2, <2>5, SessionsKept DEF Reject, Approve, RewardTypes, Types
<1>7. ASSUME NEW a \in Admins, CountVerified(a) \/ CountRewards(a) PROVE Types'
  <2>1. Verified(Of(a)) \in Nat /\ Granted(Of(a)) \in Nat
    BY Counts
  <2>2. PICK k \in AdminSet : admin' = [admin EXCEPT ![a] = k] /\ k.of = admin[a].of
    <3>1. CASE CountVerified(a)
      <4> DEFINE k == [admin[a] EXCEPT !.at = "rewards", !.verified = Verified(Of(a))]
      <4>1. k \in AdminSet /\ k.of = admin[a].of
        BY <1>0, <2>1 DEF AdminTypes, AdminSet
      <4>2. admin' = [admin EXCEPT ![a] = k]
        BY <1>0, <3>1 DEF CountVerified, AdminTypes
      <4> HIDE DEF k
      <4> QED BY <4>1, <4>2
    <3>2. CASE CountRewards(a)
      <4> DEFINE k == [admin[a] EXCEPT !.at = "grant", !.granted = Granted(Of(a))]
      <4>1. k \in AdminSet /\ k.of = admin[a].of
        BY <1>0, <2>1 DEF AdminTypes, AdminSet
      <4>2. admin' = [admin EXCEPT ![a] = k]
        BY <1>0, <3>2 DEF CountRewards, AdminTypes
      <4> HIDE DEF k
      <4> QED BY <4>1, <4>2
    <3> QED BY <1>7, <3>1, <3>2
  <2>3. /\ admin[a].at # "idle"
        /\ \A b \in Admins : admin'[b].at # "idle" =>
             admin[b].at # "idle" /\ admin'[b].of = admin[b].of
    BY <1>0, <1>7, <2>2 DEF CountVerified, CountRewards, AdminTypes
  <2>4. UNCHANGED <<tables, start, verify, claim, faults>>
    BY <1>7 DEF CountVerified, CountRewards
  <2>5. AdminTypes'
    <3>1. admin' \in [Admins -> AdminSet]
      BY <1>0, <2>2 DEF AdminTypes
    <3> QED BY <1>0, <2>3, <2>4, <3>1 DEF AdminTypes, tables, Status
  <2> QED BY <1>0, <1>i, <1>t, <2>4, <2>5, SessionsKept DEF tables, Types
<1>8. ASSUME NEW a \in Admins, Grant(a) PROVE Types'
  <2>1. Of(a) \in Users
    BY <1>0, <1>8 DEF Grant, AdminTypes, InviteTypes, Of
  <2>2. AdminTypes'
    BY <1>0, <1>8 DEF Grant, AdminTypes, AdminSet, Away, Status
  <2>3. RewardTypes' /\ Len(rewards') >= Len(rewards) /\ Len(rewards') \in Nat
    <3>1. CASE UNCHANGED <<rewards, given, raced>>
      BY <1>0, <3>1 DEF RewardTypes
    <3>2. CASE /\ rewards' = Append(rewards, [by |-> Of(a), fulfilled |-> FALSE])
               /\ given' = Append(given, [alone |-> 0, beside |-> 0])
               /\ raced' \in {raced, [raced EXCEPT ![Of(a)] = @ + 1]}
      <4>1. /\ [by |-> Of(a), fulfilled |-> FALSE] \in RewardSet
            /\ [alone |-> 0, beside |-> 0] \in GivenSet
        BY <2>1 DEF RewardSet, GivenSet
      <4>2. raced' \in [Users -> Nat]
        BY <1>0, <2>1, <3>2 DEF RewardTypes
      <4> HIDE DEF RewardSet, GivenSet
      <4> QED BY <1>0, <3>2, <4>1, <4>2 DEF RewardTypes
    <3> QED BY <1>8, <3>1, <3>2 DEF Grant
  <2>4. InviteTypes'
    BY <1>0, <1>8 DEF Grant, InviteTypes, Status
  <2> QED BY <1>0, <1>8, <1>i, <2>2, <2>3, <2>4, SessionsKept DEF Grant, Types
<1>9. ASSUME NEW c \in Claimers, ClaimRead(c) PROVE Types'
  <2>1. ClaimTypes'
    <3>1. PICK w \in Unfulfilled(c) :
            claim' = [claim EXCEPT ![c] = [at |-> "deliver", reward |-> w, alone |-> ~ Claimed(w)]]
      BY <1>9 DEF ClaimRead
    <3>2. w \in 1..Len(rewards) /\ w \in Nat
      BY <1>0, <3>1 DEF Unfulfilled, RewardTypes
    <3> DEFINE k == [at |-> "deliver", reward |-> w, alone |-> ~ Claimed(w)]
    <3>3. k \in ClaimSet /\ k.reward = w
      BY <3>2 DEF ClaimSet, Claimed
    <3>4. rewards' = rewards
      BY <1>9 DEF ClaimRead, tables
    <3> HIDE DEF k
    <3> QED BY <1>0, <3>1, <3>2, <3>3, <3>4 DEF ClaimTypes, k
  <2> QED BY <1>0, <1>9, <1>i, <1>t, <2>1, SessionsKept DEF ClaimRead, tables, Types
<1>10. ASSUME NEW c \in Claimers, Deliver(c) \/ Fulfill(c) \/ FulfillFails(c) PROVE Types'
  <2> DEFINE w == claim[c].reward
  <2>1. w \in 1..Len(rewards) /\ claim[c] \in ClaimSet /\ claim[c].at # "idle"
    BY <1>0, <1>10 DEF Deliver, Fulfill, FulfillFails, ClaimTypes
  <2>2. RewardTypes' /\ Len(rewards') = Len(rewards)
    <3>1. CASE UNCHANGED <<rewards, given, raced>>
      BY <1>0, <3>1 DEF RewardTypes
    <3>2. CASE UNCHANGED <<rewards, raced>> /\ given' = Give(w, claim[c].alone)
      <4>1. PICK g \in GivenSet : given' = [given EXCEPT ![w] = g]
        <5>1. claim[c].alone \in BOOLEAN
          BY <2>1 DEF ClaimSet
        <5> HIDE DEF w
        <5> QED BY <2>1, <3>2, <5>1, GiveTypes
      <4> QED BY <1>0, <2>1, <3>2, <4>1 DEF RewardTypes
    <3>3. CASE UNCHANGED <<given, raced>> /\ rewards' = [rewards EXCEPT ![w].fulfilled = TRUE]
      <4>1. [rewards[w] EXCEPT !.fulfilled = TRUE] \in RewardSet
        <5>1. rewards[w] \in RewardSet
          BY <1>0, <2>1 DEF RewardTypes
        <5> QED BY <5>1 DEF RewardSet
      <4>2. rewards' = [rewards EXCEPT ![w] = [rewards[w] EXCEPT !.fulfilled = TRUE]]
        BY <1>0, <2>1, <3>3 DEF RewardTypes
      <4> QED BY <1>0, <2>1, <3>3, <4>1, <4>2 DEF RewardTypes
    <3> QED BY <1>10, <3>1, <3>2, <3>3 DEF Deliver, Fulfill, FulfillFails, tables
  <2>3. ClaimTypes'
    <3> DEFINE k == [claim[c] EXCEPT !.at = "fulfill"]
    <3>1. claim' = [claim EXCEPT ![c] = k] \/ claim' = [claim EXCEPT ![c] = NoClaim]
      BY <1>0, <1>10 DEF Deliver, Fulfill, FulfillFails, Step, ClaimTypes
    <3>2. /\ k \in ClaimSet /\ k.reward = w
          /\ NoClaim \in ClaimSet /\ NoClaim.at = "idle"
      BY <2>1 DEF ClaimSet, NoClaim
    <3> HIDE DEF k, w
    <3> QED BY <1>0, <2>1, <2>2, <3>1, <3>2 DEF ClaimTypes
  <2>4. InviteTypes' /\ UNCHANGED <<invite, start, verify, admin>> /\ faults' \in Nat
    BY <1>0, <1>10 DEF Deliver, Fulfill, FulfillFails, InviteTypes, Status, tables
  <2> QED BY <1>0, <1>i, <2>2, <2>3, <2>4, SessionsKept DEF Types
<1>11. CASE Crash
  <2>1. StartTypes' /\ VerifyTypes'
    BY <1>0, <1>11 DEF Crash, StartTypes, VerifyTypes
  <2>2. AdminTypes' /\ ClaimTypes'
    BY <1>0, <1>11 DEF Crash, AdminTypes, ClaimTypes, AdminSet, ClaimSet, Away, NoClaim, tables
  <2>3. faults' \in Nat
    BY <1>0, <1>11 DEF Crash
  <2> QED BY <1>11, <1>t, <2>1, <2>2, <2>3 DEF Crash, Types
<1>12. CASE UNCHANGED vars
  BY <1>0, <1>12, <1>i, <1>t, SessionsKept DEF vars, tables, Types
<1> QED BY <1>1, <1>2, <1>3, <1>4, <1>5, <1>6, <1>7, <1>8, <1>9, <1>10, <1>11, <1>12 DEF Next

-----------------------------------------------------------------------------
(* The first referrer *)

\* Who was invited keeps the referrer.
FirstKept == \A x \in Users : Status(x) # "none" => invite'[x].by = invite[x].by

\* Of the writers of an invite only the insert sets the referrer, of nobody
\* who has one.
LEMMA KeepsFirst == ASSUME Types, [Next]_vars PROVE FirstKept
<1> SUFFICES ASSUME NEW x \in Users, Status(x) # "none" PROVE invite'[x].by = invite[x].by
  BY DEF FirstKept
<1>1. \A y \in Users, s \in InviteStatus :
        invite' = [invite EXCEPT ![y].status = s] => invite'[x].by = invite[x].by
  BY DEF Types, InviteTypes, InviteSet
<1>2. ASSUME NEW y \in Users, VerifyReject(y) PROVE invite'[x].by = invite[x].by
  BY <1>1, <1>2 DEF VerifyReject, InviteStatus
<1>3. ASSUME NEW a \in Admins, Reject(a) \/ Approve(a) PROVE invite'[x].by = invite[x].by
  <2>1. admin[a].of \in Users
    BY <1>3 DEF Reject, Approve, Types, AdminTypes
  <2> QED BY <1>1, <1>3, <2>1 DEF Reject, Approve, InviteStatus
<1>4. ASSUME NEW s \in Starts, RecordInsert(s) PROVE invite'[x].by = invite[x].by
  BY <1>4, UsersAssumption DEF RecordInsert, Types, InviteTypes, Status
<1>5. \/ invite' = invite
      \/ \E y \in Users : VerifyReject(y)
      \/ \E a \in Admins : Reject(a) \/ Approve(a)
      \/ \E s \in Starts : RecordInsert(s)
  BY DEF Next, vars, tables, RecordRead, VerifyRead, VerifyCheck, AdminRead, CountVerified,
         CountRewards, Grant, ClaimRead, Deliver, Fulfill, FulfillFails, Crash
<1> QED BY <1>2, <1>3, <1>4, <1>5

\* However many links a user presses at once: the invite keeps the referrer who
\* was recorded first, and nobody is the own referrer.
THEOREM FirstStays == Spec => FirstReferrerStays
<1>1. Types /\ [Next]_vars =>
        [\A x \in Users : Status(x) # "none" =>
           invite'[x].by = invite[x].by /\ invite[x].by # x]_vars
  BY KeepsFirst DEF FirstKept, Types, InviteTypes
<1>2. Init => Types
  BY InitTypes
<1>3. Types /\ [Next]_vars => Types'
  BY StepTypes
<1> QED BY <1>1, <1>2, <1>3, PTL DEF Spec, FirstReferrerStays

-----------------------------------------------------------------------------
(* The rewards are earned *)

Approved(r) == {x \in approved : invite[x].by = r}

\* What an administrator has counted is not more than what is there.
Earned ==
  /\ RewardsEarned
  /\ \A a \in Admins : admin[a].at \in {"rewards", "grant"} =>
       admin[a].verified <= Cardinality(Approved(Of(a)))

\* Division by a positive number is monotonic.
LEMMA DivMonotonic ==
  ASSUME NEW m \in Nat, NEW n \in Nat, NEW d \in Nat \ {0}, m <= n
  PROVE m \div d <= n \div d /\ m \div d \in Nat /\ n \div d \in Nat
<1> DEFINE q == m \div d
           r == n \div d
<1>1. /\ q \in Int /\ r \in Int
      /\ d * q <= m /\ m < d * q + d
      /\ d * r <= n /\ n < d * r + d
  OBVIOUS
<1> HIDE DEF q, r
<1>2. q \in Nat /\ r \in Nat
  <2>1. q >= 0
    <3> SUFFICES ASSUME q + 1 <= 0 PROVE FALSE
      BY <1>1
    <3>1. d * (q + 1) <= 0
      BY <1>1
    <3>2. d * (q + 1) = d * q + d
      BY <1>1
    <3> QED BY <1>1, <3>1, <3>2
  <2>2. r >= 0
    <3> SUFFICES ASSUME r + 1 <= 0 PROVE FALSE
      BY <1>1
    <3>1. d * (r + 1) <= 0
      BY <1>1
    <3>2. d * (r + 1) = d * r + d
      BY <1>1
    <3> QED BY <1>1, <3>1, <3>2
  <2> QED BY <1>1, <2>1, <2>2
<1>3. q <= r
  <2> SUFFICES ASSUME r + 1 <= q PROVE FALSE
    BY <1>1
  <2>1. d * (r + 1) <= d * q
    BY <1>1
  <2>2. d * (r + 1) = d * r + d
    BY <1>1
  <2> QED BY <1>1, <2>1, <2>2
<1> QED BY <1>2, <1>3 DEF q, r

\* An approved invite stays with its referrer: what was earned is never lost.
LEMMA ApprovedGrows ==
  ASSUME Types, Types', FirstKept, approved \subseteq approved', NEW r
  PROVE Cardinality(Approved(r)) <= Cardinality(Approved(r)') /\ Cardinality(Approved(r)') \in Nat
<1>1. Approved(r) \subseteq Approved(r)'
  BY DEF Approved, Types, InviteTypes, FirstKept
<1>2. IsFiniteSet(Approved(r)')
  <2>1. IsFiniteSet(approved') /\ Approved(r)' \subseteq approved'
    BY DEF Types, InviteTypes, Approved
  <2> QED BY <2>1, FS_Subset
<1> QED BY <1>1, <1>2, FS_Subset, FS_CardinalityType

\* A reward more.
LEMMA GrantedOneMore ==
  ASSUME Types, NEW q \in Users,
         rewards' = Append(rewards, [by |-> q, fulfilled |-> FALSE]), NEW r
  PROVE Granted(r)' = IF r = q THEN Granted(r) + 1 ELSE Granted(r)
<1> DEFINE n == Len(rewards)
           G == {w \in DOMAIN rewards : rewards[w].by = r}
           H == {w \in DOMAIN rewards' : rewards'[w].by = r}
<1>1. /\ n \in Nat /\ DOMAIN rewards = 1..n /\ DOMAIN rewards' = 1..n + 1
      /\ \A w \in 1..n : rewards'[w] = rewards[w]
      /\ rewards'[n + 1].by = q
  BY DEF Types, RewardTypes, RewardSet
<1>2. IsFiniteSet(G) /\ n + 1 \notin G
  <2>1. G \subseteq 1..n /\ IsFiniteSet(1..n)
    BY <1>1, FS_Interval
  <2> QED BY <1>1, <2>1, FS_Subset
<1>3. CASE r = q
  <2>1. H = G \cup {n + 1}
    BY <1>1, <1>3
  <2>2. Cardinality(H) = Cardinality(G) + 1
    BY <1>2, <2>1, FS_AddElement
  <2> QED BY <1>3, <2>2 DEF Granted
<1>4. CASE r # q
  <2>1. H = G
    BY <1>1, <1>4
  <2> QED BY <1>4, <2>1 DEF Granted
<1> QED BY <1>3, <1>4

\* What the administrators have counted stays true as long as they hold it.
LEMMA CountedKept ==
  ASSUME Types, Types', Earned, FirstKept, approved \subseteq approved',
         NEW a \in Admins, admin'[a] = admin[a], admin[a].at \in {"rewards", "grant"}
  PROVE admin'[a].verified <= Cardinality(Approved(Of(a))')
<1> DEFINE q == Of(a)
<1>2. admin[a].of \in Users /\ Status(admin[a].of) # "none" /\ admin[a].verified \in Nat
  BY DEF Types, AdminTypes, AdminSet
<1>3. Of(a)' = q /\ q \in Users
  BY <1>2 DEF Of, FirstKept, Types, InviteTypes
<1>4. admin[a].verified <= Cardinality(Approved(q))
  BY DEF Earned
<1>5. /\ Cardinality({x \in approved : invite[x].by = q})
           <= Cardinality({x \in approved' : invite'[x].by = q})
      /\ Cardinality({x \in approved : invite[x].by = q}) \in Nat
      /\ Cardinality({x \in approved' : invite'[x].by = q}) \in Nat
  <2>1. \A r \in Users : /\ Cardinality(Approved(r)) <= Cardinality(Approved(r)')
                         /\ Cardinality(Approved(r)) \in Nat
                         /\ Cardinality(Approved(r)') \in Nat
    BY ApprovedGrows, Counts DEF Approved
  <2> QED BY <1>3, <2>1 DEF Approved
<1> HIDE DEF q
<1> QED BY <1>2, <1>3, <1>4, <1>5 DEF Approved

\* A step that grants nothing leaves what was granted earned.
LEMMA StillEarned ==
  ASSUME Types, Types', Earned, FirstKept, approved \subseteq approved',
         UNCHANGED raced, \A r \in Users : Granted(r)' = Granted(r)
  PROVE RewardsEarned'
<1> SUFFICES ASSUME NEW r \in Users
             PROVE Granted(r)' <= Cardinality(Approved(r)') \div PerReward + raced'[r]
  BY DEF RewardsEarned, Approved
<1>1. Granted(r) <= Cardinality(Approved(r)) \div PerReward + raced[r]
  BY DEF Earned, RewardsEarned, Approved
<1>2. /\ Cardinality(Approved(r)) \in Nat /\ Granted(r) \in Nat
      /\ raced[r] \in Nat /\ raced'[r] = raced[r]
  BY Counts DEF Approved, Types, RewardTypes
<1>3. /\ Cardinality(Approved(r)) <= Cardinality(Approved(r)')
      /\ Cardinality(Approved(r)') \in Nat
  BY ApprovedGrows
<1>4. /\ Cardinality(Approved(r)) \div PerReward <= Cardinality(Approved(r)') \div PerReward
      /\ Cardinality(Approved(r)) \div PerReward \in Nat
      /\ Cardinality(Approved(r)') \div PerReward \in Nat
  BY <1>2, <1>3, DivMonotonic, BoundsAssumption
<1> QED BY <1>1, <1>2, <1>4

\* A step that grants nothing and counts nothing.
LEMMA EarnedKept ==
  ASSUME Types, Types', Earned, FirstKept, approved \subseteq approved',
         UNCHANGED raced, \A r \in Users : Granted(r)' = Granted(r),
         \A a \in Admins : admin'[a].at \in {"rewards", "grant"} => admin'[a] = admin[a]
  PROVE Earned'
<1>1. RewardsEarned'
  BY StillEarned
<1>2. ASSUME NEW a \in Admins, admin'[a].at \in {"rewards", "grant"}
      PROVE admin'[a].verified <= Cardinality(Approved(Of(a))')
  <2>1. admin'[a] = admin[a] /\ admin[a].at \in {"rewards", "grant"}
    BY <1>2
  <2> QED BY <2>1, CountedKept
<1> QED BY <1>1, <1>2 DEF Earned

\* Every step keeps what was earned.
LEMMA StepEarned ==
  ASSUME Types, Types', Earned, [Next]_vars PROVE Earned'
<1> USE BoundsAssumption DEF histories
<1>0. FirstKept
  BY KeepsFirst
<1>g. rewards' = rewards => \A r \in Users : Granted(r)' = Granted(r)
  BY DEF Granted
<1>1. ASSUME NEW a \in Admins, CountVerified(a) \/ CountRewards(a) PROVE Earned'
  <2>1. /\ UNCHANGED <<invite, rewards, approved, raced>>
        /\ \A b \in Admins \ {a} : admin'[b] = admin[b]
    BY <1>1 DEF CountVerified, CountRewards, tables, Types, AdminTypes
  <2>2. admin'[a].of = admin[a].of /\ admin[a].at \in {"count", "rewards"}
    BY <1>1 DEF CountVerified, CountRewards, Types, AdminTypes, AdminSet
  <2>3. admin'[a].verified <= Cardinality(Approved(Of(a)))
    <3>1. CASE CountVerified(a)
      <4>1. admin'[a].verified = Verified(Of(a))
        BY <3>1 DEF CountVerified, Types, AdminTypes, AdminSet
      <4>2. Verified(Of(a)) <= Cardinality(Approved(Of(a)))
        BY Counts DEF Approved
      <4> QED BY <4>1, <4>2
    <3>2. CASE CountRewards(a)
      <4>1. admin'[a].verified = admin[a].verified /\ admin[a].at = "rewards"
        BY <3>2 DEF CountRewards, Types, AdminTypes, AdminSet
      <4> QED BY <4>1 DEF Earned
    <3> QED BY <1>1, <3>1, <3>2
  <2>4. admin'[a].verified <= Cardinality(Approved(Of(a))')
    BY <2>1, <2>2, <2>3 DEF Approved, Of
  <2>5. \A b \in Admins \ {a} : admin'[b].at \in {"rewards", "grant"} =>
          admin'[b].verified <= Cardinality(Approved(Of(b))')
    BY <1>0, <2>1, CountedKept
  <2>6. RewardsEarned'
    BY <1>0, <1>g, <2>1, StillEarned
  <2> QED BY <2>4, <2>5, <2>6 DEF Earned
<1>3. ASSUME NEW a \in Admins, Grant(a) PROVE Earned'
  <2> DEFINE q == Of(a)
  <2>1. /\ UNCHANGED <<invite, approved>> /\ admin[a].at = "grant"
        /\ admin' = [admin EXCEPT ![a] = Away]
    BY <1>3 DEF Grant
  <2>2. \A b \in Admins : admin'[b].at \in {"rewards", "grant"} => admin'[b] = admin[b]
    BY <2>1 DEF Types, AdminTypes, Away
  <2>3. CASE UNCHANGED <<rewards, raced>>
    BY <1>0, <1>g, <2>1, <2>2, <2>3, EarnedKept
  <2>4. CASE /\ Due(a) /\ rewards' = Append(rewards, [by |-> q, fulfilled |-> FALSE])
             /\ raced' = IF admin[a].granted = Granted(q) THEN raced
                         ELSE [raced EXCEPT ![q] = @ + 1]
    <3>1. q \in Users /\ raced \in [Users -> Nat]
      BY <2>1 DEF Types, AdminTypes, InviteTypes, RewardTypes, Of
    <3>2. /\ admin[a].verified \in Nat /\ admin[a].granted \in Nat /\ Granted(q) \in Nat
          /\ Cardinality(Approved(q)) \in Nat
          /\ admin[a].verified <= Cardinality(Approved(q))
      BY <2>1, Counts DEF Types, AdminTypes, AdminSet, Approved, Earned
    <3>3. /\ admin[a].verified \div PerReward <= Cardinality(Approved(q)) \div PerReward
          /\ admin[a].verified \div PerReward \in Nat
          /\ Cardinality(Approved(q)) \div PerReward \in Nat
      BY <3>2, DivMonotonic
    <3>4. Granted(q) <= Cardinality(Approved(q)) \div PerReward + raced[q]
      BY <3>1 DEF Earned, RewardsEarned, Approved
    <3>5. Granted(q) + 1 <= Cardinality(Approved(q)) \div PerReward + raced'[q]
      <4>1. CASE admin[a].granted = Granted(q)
        <5>1. raced'[q] \in Nat
          BY <2>4, <3>1, <4>1
        <5>2. Granted(q) + 1 <= admin[a].verified \div PerReward
          BY <2>4, <3>2, <3>3, <4>1 DEF Due
        <5> QED BY <3>2, <3>3, <5>1, <5>2
      <4>2. CASE admin[a].granted # Granted(q)
        <5>1. raced[q] \in Nat /\ raced'[q] = raced[q] + 1
          BY <2>4, <3>1, <4>2
        <5> QED BY <3>2, <3>3, <3>4, <5>1
      <4> QED BY <4>1, <4>2
    <3>6. \A r \in Users : Granted(r)' = IF r = q THEN Granted(r) + 1 ELSE Granted(r)
      BY <2>4, <3>1, GrantedOneMore
    <3>7. ASSUME NEW r \in Users
          PROVE Granted(r)' <= Cardinality(Approved(r)) \div PerReward + raced'[r]
      <4>1. CASE r = q
        BY <3>5, <3>6, <4>1
      <4>2. CASE r # q
        <5>1. raced'[r] = raced[r]
          BY <2>4, <3>1, <4>2
        <5> QED BY <3>6, <4>2, <5>1 DEF Earned, RewardsEarned, Approved
      <4> QED BY <4>1, <4>2
    <3>8. RewardsEarned'
      BY <2>1, <3>7 DEF RewardsEarned, Approved
    <3>9. \A b \in Admins : admin'[b].at \in {"rewards", "grant"} =>
            admin'[b].verified <= Cardinality(Approved(Of(b))')
      <4>1. approved \subseteq approved'
        BY <2>1
      <4> QED BY <1>0, <2>2, <4>1, CountedKept
    <3> QED BY <3>8, <3>9 DEF Earned
  <2> QED BY <1>3, <2>3, <2>4 DEF Grant
<1>4. ASSUME NEW c \in Claimers, Fulfill(c) PROVE Earned'
  <2>1. UNCHANGED <<approved, raced, admin>>
    BY <1>4 DEF Fulfill
  <2>2. claim[c].reward \in 1..Len(rewards)
    BY <1>4 DEF Fulfill, Types, ClaimTypes
  <2>3. /\ DOMAIN rewards' = DOMAIN rewards
        /\ \A w \in DOMAIN rewards : rewards'[w].by = rewards[w].by
    BY <1>4, <2>2 DEF Fulfill, Types, RewardTypes, RewardSet
  <2>4. \A r \in Users : {w \in DOMAIN rewards' : rewards'[w].by = r}
                         = {w \in DOMAIN rewards : rewards[w].by = r}
    BY <2>3
  <2>5. \A r \in Users : Granted(r)' = Granted(r)
    BY <2>4 DEF Granted
  <2> QED BY <1>0, <2>1, <2>5, EarnedKept
<1>5. CASE UNCHANGED <<rewards, raced>> /\ approved \subseteq approved' /\
           \A a \in Admins : admin'[a].at \in {"rewards", "grant"} => admin'[a] = admin[a]
  BY <1>0, <1>5, <1>g, EarnedKept
<1>6. ASSUME NEW a \in Admins, AdminRead(a) \/ Reject(a) \/ Approve(a) PROVE Earned'
  <2>1. \A b \in Admins : admin'[b].at \in {"rewards", "grant"} => admin'[b] = admin[b]
    <3>1. \A b \in Admins \ {a} : admin'[b] = admin[b]
      BY <1>6 DEF AdminRead, Reject, Approve, Step, Types, AdminTypes
    <3>2. admin'[a].at \notin {"rewards", "grant"}
      <4>1. a \in DOMAIN admin /\ DOMAIN admin[a] = {"at", "of", "verified", "granted"}
        BY DEF Types, AdminTypes, AdminSet
      <4>2. CASE AdminRead(a)
        BY <4>1, <4>2 DEF AdminRead, Away
      <4>3. CASE Reject(a)
        BY <4>1, <4>3 DEF Reject, Away
      <4>4. CASE Approve(a)
        BY <4>1, <4>4 DEF Approve, Step
      <4> QED BY <1>6, <4>2, <4>3, <4>4
    <3> QED BY <3>1, <3>2
  <2> QED BY <1>5, <1>6, <2>1 DEF AdminRead, Reject, Approve, tables
<1>7. ASSUME NEW s \in Starts, RecordRead(s) \/ RecordInsert(s) PROVE Earned'
  BY <1>5, <1>7 DEF RecordRead, RecordInsert, tables
<1>8. ASSUME NEW x \in Users, VerifyRead(x) \/ VerifyCheck(x) \/ VerifyReject(x) PROVE Earned'
  BY <1>5, <1>8 DEF VerifyRead, VerifyCheck, VerifyReject, tables
<1>9. ASSUME NEW c \in Claimers, ClaimRead(c) \/ Deliver(c) \/ FulfillFails(c) PROVE Earned'
  BY <1>5, <1>9 DEF ClaimRead, Deliver, FulfillFails, tables
<1>10. CASE Crash
  BY <1>5, <1>10 DEF Crash, tables, Away
<1>11. CASE UNCHANGED vars
  BY <1>5, <1>11 DEF vars, tables
<1> QED BY <1>1, <1>3, <1>4, <1>6, <1>7, <1>8, <1>9, <1>10, <1>11 DEF Next

\* Administrators that overlap, users whose checks reject invites and any number per
\* reward: a referrer gets at most what the invites ever approved have earned and
\* one reward for every grant that raced with another.  The count of verified
\* invites may be old, but approvals are not taken back from history; what makes a
\* reward too many is an outdated count of the rewards, and nothing else.
THEOREM NeverTooMany == Spec => []RewardsEarned
<1>1. Init => Types /\ Earned
  <2> SUFFICES ASSUME Init PROVE Types /\ Earned
    OBVIOUS
  <2>1. Types /\ rewards = <<>> /\ \A r \in Users : raced[r] = 0
    BY InitTypes DEF Init
  <2>2. \A r \in Users : Granted(r) = 0
    <3>1. \A r \in Users : {w \in DOMAIN rewards : rewards[w].by = r} = {}
      BY <2>1
    <3> QED BY <3>1, FS_EmptySet DEF Granted
  <2>3. ASSUME NEW r \in Users PROVE Cardinality(Approved(r)) \div PerReward \in Nat
    BY <2>1, Counts, DivMonotonic, BoundsAssumption DEF Approved
  <2>4. RewardsEarned
    BY <2>1, <2>2, <2>3 DEF RewardsEarned, Approved
  <2> QED BY <2>1, <2>4 DEF Init, Earned, Away
<1>2. Types /\ Earned /\ [Next]_vars => Types' /\ Earned'
  BY StepTypes, StepEarned
<1>3. Earned => RewardsEarned
  BY DEF Earned
<1> QED BY <1>1, <1>2, <1>3, PTL DEF Spec

-----------------------------------------------------------------------------
(* Delivered, then marked *)

\* A claim begun alone has delivered the reward and not marked it yet.
Fulfilling(w) ==
  \E c \in Claimers : claim[c].at = "fulfill" /\ claim[c].reward = w /\ claim[c].alone

\* What is known of the deliveries of a reward.
Owed(w) ==
  /\ rewards[w].fulfilled => given[w].alone + given[w].beside > 0
  /\ given[w].alone <= 1 + faults
  /\ ~ rewards[w].fulfilled /\ ~ Fulfilling(w) => given[w].alone <= faults

\* What is known of a claim: one begun alone has yet to deliver for the first time
\* since the last fault, and one that goes to mark the reward has delivered it.
Held(c) ==
  LET w == claim[c].reward IN
  /\ claim[c].at = "deliver" /\ claim[c].alone => given[w].alone <= faults
  /\ claim[c].at = "fulfill" => given[w].alone + given[w].beside > 0

\* Of two claims of a reward one was begun beside the other.
NotBothAlone ==
  \A c, d \in Claimers :
    /\ c # d /\ claim[c].at # "idle" /\ claim[d].at # "idle"
    /\ claim[c].reward = claim[d].reward
    => ~ claim[c].alone \/ ~ claim[d].alone

Delivered ==
  /\ \A w \in 1..Len(rewards) : Owed(w)
  /\ \A c \in Claimers : Held(c)
  /\ NotBothAlone

\* The deliveries of a reward are numbers.
LEMMA GivenTypes ==
  ASSUME Types, NEW w \in 1..Len(rewards)
  PROVE given[w].alone \in Nat /\ given[w].beside \in Nat
<1>1. given[w] \in GivenSet
  BY DEF Types, RewardTypes
<1> QED BY <1>1 DEF GivenSet

\* A step that leaves the rewards and the claims alone.
LEMMA DeliveredKept ==
  ASSUME Types, Delivered, UNCHANGED <<rewards, given, faults, claim>>
  PROVE Delivered'
  BY DEF Delivered, Fulfilling, Owed, Held, NotBothAlone

\* A claim that ends without a delivery: the reward keeps its mark or gets it, unless
\* the claim had delivered and a fault comes in its place.
LEMMA ClaimEnds ==
  ASSUME Types, Delivered, NEW c \in Claimers, claim[c].at # "idle",
         claim' = [claim EXCEPT ![c] = NoClaim], UNCHANGED given,
         Len(rewards') = Len(rewards), faults' \in Nat, faults' >= faults,
         \A w \in 1..Len(rewards) :
           rewards'[w].fulfilled =>
             rewards[w].fulfilled \/ (w = claim[c].reward /\ claim[c].at = "fulfill"),
         \A w \in 1..Len(rewards) : rewards[w].fulfilled => rewards'[w].fulfilled,
         \/ claim[c].at = "deliver"
         \/ rewards'[claim[c].reward].fulfilled
         \/ faults' = faults + 1
  PROVE Delivered'
<1>0. /\ claim \in [Claimers -> ClaimSet] /\ given \in Seq(GivenSet)
      /\ Len(given) = Len(rewards) /\ Len(rewards) \in Nat /\ faults \in Nat
      /\ \A d \in Claimers : claim[d].at # "idle" => claim[d].reward \in 1..Len(rewards)
      /\ \A w \in 1..Len(rewards) : given[w].alone \in Nat /\ given[w].beside \in Nat
  BY GivenTypes DEF Types, ClaimTypes, RewardTypes
<1>1. /\ claim'[c].at = "idle" /\ \A d \in Claimers \ {c} : claim'[d] = claim[d]
  BY <1>0 DEF NoClaim
<1>2. \A d \in Claimers : claim'[d].at # "idle" => claim'[d] = claim[d]
  BY <1>1
<1>3. NotBothAlone'
  BY <1>2 DEF Delivered, NotBothAlone
<1>4. ASSUME NEW d \in Claimers PROVE Held(d)'
  <2>1. CASE claim'[d].at = "idle"
    BY <2>1 DEF Held
  <2>2. CASE claim'[d].at # "idle"
    <3>1. claim'[d] = claim[d] /\ claim[d].reward \in 1..Len(rewards)
      BY <1>0, <1>2, <2>2
    <3> QED BY <1>0, <3>1 DEF Delivered, Held
  <2> QED BY <2>1, <2>2
<1>5. ASSUME NEW w \in 1..Len(rewards) PROVE Owed(w)'
  <2>1. Owed(w) /\ Held(c)
    BY DEF Delivered
  <2>2. rewards'[w].fulfilled => given'[w].alone + given'[w].beside > 0
    BY <2>1 DEF Owed, Held
  <2>3. given'[w].alone <= 1 + faults'
    BY <1>0, <2>1 DEF Owed
  <2>4. ASSUME ~ rewards'[w].fulfilled, ~ Fulfilling(w)'
        PROVE given'[w].alone <= faults'
    <3>1. CASE ~ Fulfilling(w)
      BY <1>0, <2>1, <2>4, <3>1 DEF Owed
    <3>2. CASE Fulfilling(w)
      <4>1. PICK d \in Claimers :
              claim[d].at = "fulfill" /\ claim[d].reward = w /\ claim[d].alone
        BY <3>2 DEF Fulfilling
      <4>2. d = c
        <5> SUFFICES ASSUME d # c PROVE FALSE
          OBVIOUS
        <5>1. claim'[d] = claim[d]
          BY <1>1
        <5> QED BY <2>4, <4>1, <5>1 DEF Fulfilling
      <4>3. faults' = faults + 1
        BY <2>4, <4>1, <4>2
      <4> QED BY <1>0, <2>1, <4>3 DEF Owed
    <3> QED BY <3>1, <3>2
  <2> QED BY <2>2, <2>3, <2>4 DEF Owed
<1> QED BY <1>3, <1>4, <1>5 DEF Delivered

\* Every step keeps it.
LEMMA StepDelivered ==
  ASSUME Types, Types', Delivered, [Next]_vars PROVE Delivered'
<1> USE DEF histories
<1>0. /\ claim \in [Claimers -> ClaimSet] /\ rewards \in Seq(RewardSet) /\ given \in Seq(GivenSet)
      /\ Len(given) = Len(rewards) /\ Len(rewards) \in Nat /\ faults \in Nat
      /\ \A c \in Claimers : claim[c].at # "idle" => claim[c].reward \in 1..Len(rewards)
      /\ \A w \in 1..Len(rewards) : given[w].alone \in Nat /\ given[w].beside \in Nat
  BY GivenTypes DEF Types, ClaimTypes, RewardTypes
<1>1. ASSUME NEW c \in Claimers, ClaimRead(c) PROVE Delivered'
  <2>1. PICK w \in Unfulfilled(c) :
          claim' = [claim EXCEPT ![c] = [at |-> "deliver", reward |-> w, alone |-> ~ Claimed(w)]]
    BY <1>1 DEF ClaimRead
  <2>2. ~ rewards[w].fulfilled /\ w \in 1..Len(rewards)
    BY <1>0, <2>1 DEF Unfulfilled
  <2>3. /\ claim[c].at = "idle" /\ UNCHANGED <<rewards, given, faults>>
        /\ claim'[c].at = "deliver" /\ claim'[c].reward = w /\ claim'[c].alone = ~ Claimed(w)
        /\ \A d \in Claimers \ {c} : claim'[d] = claim[d]
    BY <1>0, <1>1, <2>1 DEF ClaimRead, tables
  <2>4. \A v : Fulfilling(v)' <=> Fulfilling(v)
    BY <2>3 DEF Fulfilling
  <2>5. NotBothAlone'
    <3>1. \A d \in Claimers : claim[d].at # "idle" /\ claim[d].reward = w => Claimed(w)
      BY DEF Claimed
    <3>2. \A d \in Claimers \ {c} : claim'[d].at # "idle" /\ claim'[d].reward = claim'[c].reward
            => ~ claim'[c].alone
      BY <2>3, <3>1
    <3>3. \A d, e \in Claimers \ {c} :
            /\ d # e /\ claim'[d].at # "idle" /\ claim'[e].at # "idle"
            /\ claim'[d].reward = claim'[e].reward
            => ~ claim'[d].alone \/ ~ claim'[e].alone
      BY <2>3 DEF Delivered, NotBothAlone
    <3> QED BY <3>2, <3>3 DEF NotBothAlone
  <2>6. Held(c)'
    <3>1. ~ Claimed(w) => ~ Fulfilling(w)
      BY DEF Claimed, Fulfilling
    <3>2. ~ Claimed(w) => given[w].alone <= faults
      BY <2>2, <3>1 DEF Delivered, Owed
    <3> QED BY <2>3, <3>2 DEF Held
  <2>7. \A d \in Claimers : Held(d)'
    BY <2>3, <2>6 DEF Delivered, Held
  <2>8. \A v \in 1..Len(rewards') : Owed(v)'
    BY <2>3, <2>4 DEF Delivered, Owed
  <2> QED BY <2>5, <2>7, <2>8 DEF Delivered
<1>2. ASSUME NEW c \in Claimers, Deliver(c) PROVE Delivered'
  <2> DEFINE w == claim[c].reward
  <2>1. /\ w \in 1..Len(rewards) /\ claim[c].at = "deliver" /\ claim[c].alone \in BOOLEAN
        /\ UNCHANGED <<rewards, faults>>
    BY <1>0, <1>2 DEF Deliver, ClaimSet
  <2>2. CASE given' = given /\ claim' = [claim EXCEPT ![c] = NoClaim]
    <3>1. /\ claim[c].at # "idle" /\ UNCHANGED given /\ Len(rewards') = Len(rewards)
          /\ faults' \in Nat /\ faults' >= faults
          /\ \A v \in 1..Len(rewards) : rewards'[v].fulfilled = rewards[v].fulfilled
      BY <1>0, <2>1, <2>2
    <3> HIDE DEF w
    <3> QED BY <2>1, <2>2, <3>1, ClaimEnds
  <2>3. CASE given' = Give(w, claim[c].alone) /\ claim' = [claim EXCEPT ![c].at = "fulfill"]
    <3>1. /\ claim'[c] = [at |-> "fulfill", reward |-> w, alone |-> claim[c].alone]
          /\ \A d \in Claimers \ {c} : claim'[d] = claim[d]
      BY <1>0, <2>3 DEF ClaimSet
    <3>2. PICK g \in GivenSet :
            /\ given' = [given EXCEPT ![w] = g] /\ g.alone + g.beside > 0
            /\ g.alone = IF claim[c].alone THEN given[w].alone + 1 ELSE given[w].alone
      <4> HIDE DEF w
      <4> QED BY <2>1, <2>3, GiveTypes
    <3>3. /\ given'[w] = g /\ \A v \in 1..Len(rewards) : v # w => given'[v] = given[v]
      BY <1>0, <2>1, <3>2
    <3>4. claim[c].alone => given[w].alone <= faults
      BY <2>1 DEF Delivered, Held
    <3>5. given[w].alone \in Nat /\ given[w].alone <= 1 + faults
      BY <1>0, <2>1 DEF Delivered, Owed
    <3>6. g.alone <= 1 + faults
      BY <1>0, <3>2, <3>4, <3>5
    <3>7. NotBothAlone'
      BY <2>1, <3>1 DEF Delivered, NotBothAlone
    <3>8. ASSUME NEW d \in Claimers PROVE Held(d)'
      <4>1. CASE d = c
        BY <3>1, <3>2, <3>3, <4>1 DEF Held
      <4>2. CASE d # c /\ claim[d].at # "idle" /\ claim[d].reward = w
        <5>1. claim'[d] = claim[d] /\ Held(d)
          BY <3>1, <4>2 DEF Delivered
        <5>2. claim[d].alone => ~ claim[c].alone
          BY <2>1, <4>2 DEF Delivered, NotBothAlone
        <5> QED BY <2>1, <3>2, <3>3, <4>2, <5>1, <5>2 DEF Held
      <4>3. CASE d # c /\ claim[d].at # "idle" /\ claim[d].reward # w
        <5>1. claim'[d] = claim[d] /\ Held(d) /\ claim[d].reward \in 1..Len(rewards)
          BY <1>0, <3>1, <4>3 DEF Delivered
        <5>2. given'[claim[d].reward] = given[claim[d].reward]
          BY <3>3, <4>3, <5>1
        <5> QED BY <2>1, <5>1, <5>2 DEF Held
      <4>4. CASE d # c /\ claim[d].at = "idle"
        BY <3>1, <4>4 DEF Held
      <4> QED BY <4>1, <4>2, <4>3, <4>4
    <3>9. ASSUME NEW v \in 1..Len(rewards) PROVE Owed(v)'
      <4>1. CASE v = w
        <5>1. ~ rewards[v].fulfilled /\ ~ Fulfilling(v)' => g.alone <= faults
          <6>1. ~ Fulfilling(v)' => ~ claim[c].alone
            BY <2>1, <3>1, <4>1 DEF Fulfilling
          <6>2. ~ Fulfilling(v)' => ~ Fulfilling(v)
            BY <2>1, <3>1, <4>1 DEF Fulfilling
          <6>3. Owed(v)
            BY DEF Delivered
          <6> QED BY <3>2, <4>1, <6>1, <6>2, <6>3 DEF Owed
        <5> QED BY <2>1, <3>2, <3>3, <3>6, <4>1, <5>1 DEF Owed
      <4>2. CASE v # w
        <5>1. Fulfilling(v)' <=> Fulfilling(v)
          BY <2>1, <3>1, <4>2 DEF Fulfilling
        <5>2. given'[v] = given[v] /\ Owed(v)
          BY <3>3, <4>2 DEF Delivered
        <5> QED BY <2>1, <5>1, <5>2 DEF Owed
      <4> QED BY <4>1, <4>2
    <3> QED BY <2>1, <3>7, <3>8, <3>9 DEF Delivered
  <2> QED BY <1>2, <2>2, <2>3 DEF Deliver, Step
<1>3. ASSUME NEW c \in Claimers, Fulfill(c) PROVE Delivered'
  <2> DEFINE w == claim[c].reward
  <2>1. /\ w \in 1..Len(rewards) /\ claim[c].at = "fulfill" /\ UNCHANGED <<given, faults>>
        /\ claim' = [claim EXCEPT ![c] = NoClaim]
    BY <1>0, <1>3 DEF Fulfill
  <2>2. /\ Len(rewards') = Len(rewards) /\ rewards'[w].fulfilled
        /\ \A v \in 1..Len(rewards) : v # w => rewards'[v] = rewards[v]
    <3>1. rewards[w] \in RewardSet
      BY <1>0, <2>1
    <3> QED BY <1>0, <1>3, <2>1, <3>1 DEF Fulfill, RewardSet
  <2>3. claim[c].at # "idle" /\ faults' \in Nat /\ faults' >= faults
    BY <1>0, <2>1
  <2>4. \A v \in 1..Len(rewards) :
          /\ rewards'[v].fulfilled => rewards[v].fulfilled \/ v = claim[c].reward
          /\ rewards[v].fulfilled => rewards'[v].fulfilled
    BY <2>2
  <2> QED BY <2>1, <2>2, <2>3, <2>4, ClaimEnds
<1>4. ASSUME NEW c \in Claimers, FulfillFails(c) PROVE Delivered'
  <2>1. /\ claim[c].at = "fulfill" /\ UNCHANGED <<rewards, given>> /\ faults' = faults + 1
        /\ claim' = [claim EXCEPT ![c] = NoClaim]
    BY <1>4 DEF FulfillFails, tables
  <2>2. /\ claim[c].at # "idle" /\ faults' \in Nat /\ faults' >= faults
        /\ Len(rewards') = Len(rewards)
        /\ \A v \in 1..Len(rewards) : rewards'[v].fulfilled = rewards[v].fulfilled
    BY <1>0, <2>1
  <2> QED BY <2>1, <2>2, ClaimEnds
<1>5. ASSUME NEW a \in Admins, Grant(a) PROVE Delivered'
  <2>1. UNCHANGED <<claim, faults>>
    BY <1>5 DEF Grant
  <2>2. CASE UNCHANGED <<rewards, given>>
    BY <2>1, <2>2, DeliveredKept
  <2>3. CASE /\ rewards' = Append(rewards, [by |-> Of(a), fulfilled |-> FALSE])
             /\ given' = Append(given, [alone |-> 0, beside |-> 0])
    <3>n. PICK n \in Nat : n = Len(rewards)
      BY <1>0
    <3>1. /\ Len(rewards') = n + 1 /\ ~ rewards'[n + 1].fulfilled /\ given'[n + 1].alone = 0
          /\ \A w \in 1..n : rewards'[w] = rewards[w] /\ given'[w] = given[w]
      BY <1>0, <2>3, <3>n DEF RewardSet, GivenSet
    <3>2. \A w : Fulfilling(w)' <=> Fulfilling(w)
      BY <2>1 DEF Fulfilling
    <3>3. \A w \in 1..n + 1 : w \in 1..n \/ w = n + 1
      OBVIOUS
    <3>4. NotBothAlone'
      BY <2>1 DEF Delivered, NotBothAlone
    <3>5. ASSUME NEW c \in Claimers PROVE Held(c)'
      <4>1. claim[c].at # "idle" => given'[claim[c].reward] = given[claim[c].reward]
        BY <1>0, <3>n, <3>1
      <4> QED BY <2>1, <4>1 DEF Delivered, Held
    <3>6. Owed(n + 1)'
      <4>1. rewards'[n + 1].fulfilled = FALSE /\ given'[n + 1].alone = 0 /\ faults' = faults
        BY <1>0, <2>1, <3>1, <2>3
      <4>2. 0 <= 1 + faults /\ 0 <= faults
        BY <1>0
      <4> QED BY <4>1, <4>2 DEF Owed
    <3>7. ASSUME NEW w \in 1..n PROVE Owed(w)'
      <4>1. rewards'[w] = rewards[w] /\ given'[w] = given[w] /\ Owed(w)
        BY <3>n, <3>1 DEF Delivered
      <4> QED BY <2>1, <3>2, <4>1 DEF Owed
    <3>8. ASSUME NEW w \in 1..Len(rewards') PROVE Owed(w)'
      <4>1. w \in 1..n \/ w = n + 1
        BY <3>1, <3>3
      <4>2. CASE w = n + 1
        BY <3>6, <4>2
      <4> QED BY <3>7, <4>1, <4>2
    <3> QED BY <3>4, <3>5, <3>8 DEF Delivered
  <2> QED BY <1>5, <2>2, <2>3 DEF Grant
<1>6. CASE Crash
  <2>1. UNCHANGED <<rewards, given>> /\ faults' = faults + 1
    BY <1>6 DEF Crash, tables
  <2>2. \A c \in Claimers : claim'[c].at = "idle"
    BY <1>6 DEF Crash, NoClaim
  <2>3. (\A c \in Claimers : Held(c)') /\ NotBothAlone'
    BY <2>2 DEF Held, NotBothAlone
  <2>4. ASSUME NEW w \in 1..Len(rewards) PROVE Owed(w)'
    <3>1. Owed(w)
      BY DEF Delivered
    <3> QED BY <1>0, <2>1, <3>1 DEF Owed
  <2> QED BY <2>1, <2>3, <2>4 DEF Delivered
<1>7. CASE UNCHANGED <<rewards, given, claim, faults>>
  BY <1>7, DeliveredKept
<1>8. ASSUME NEW s \in Starts, RecordRead(s) \/ RecordInsert(s) PROVE Delivered'
  BY <1>7, <1>8 DEF RecordRead, RecordInsert, tables
<1>9. ASSUME NEW x \in Users, VerifyRead(x) \/ VerifyCheck(x) \/ VerifyReject(x) PROVE Delivered'
  BY <1>7, <1>9 DEF VerifyRead, VerifyCheck, VerifyReject, tables
<1>10. ASSUME NEW a \in Admins,
              AdminRead(a) \/ Reject(a) \/ Approve(a) \/ CountVerified(a) \/ CountRewards(a)
       PROVE Delivered'
  BY <1>7, <1>10 DEF AdminRead, Reject, Approve, CountVerified, CountRewards, tables
<1>11. CASE UNCHANGED vars
  BY <1>7, <1>11 DEF vars, tables
<1> QED BY <1>1, <1>2, <1>3, <1>4, <1>5, <1>6, <1>8, <1>9, <1>10, <1>11 DEF Next

\* However often the button is pressed and however the presses overlap: a reward that
\* is marked has been delivered, and the claims begun alone deliver it once and once
\* more for every crash or failed mark at most.
THEOREM OnceButForFaults == Spec => []DeliveredThenMarked
<1>1. Init => Types /\ Delivered
  <2> SUFFICES ASSUME Init PROVE Types /\ Delivered
    OBVIOUS
  <2>1. Types /\ Len(rewards) = 0 /\ \A c \in Claimers : claim[c].at = "idle"
    BY InitTypes DEF Init, NoClaim
  <2> QED BY <2>1 DEF Delivered, Held, NotBothAlone
<1>2. Types /\ Delivered /\ [Next]_vars => Types' /\ Delivered'
  BY StepTypes, StepDelivered
<1>3. Types /\ Delivered => DeliveredThenMarked
  BY DEF DeliveredThenMarked, Delivered, Owed, Types, RewardTypes
<1> QED BY <1>1, <1>2, <1>3, PTL DEF Spec

=============================================================================
