---------------------------- MODULE UpdateProofs ----------------------------
(***************************************************************************)
(* Theorems about what an update meets: Gate, which is in front of the     *)
(* handlers, and Lists, the handlers that show lists page by page.  The    *)
(* two share no name and no variable, and no lemma here is about both.     *)
(*                                                                         *)
(* Gate: what a banned user can still get through, and when the set of     *)
(* blocked users in memory is the one of the table.  Lists: who turns the  *)
(* pages undisturbed sees every row, and a page that is drawn again after  *)
(* a deletion exists.                                                      *)
(***************************************************************************)
EXTENDS Gate, Lists, FiniteSetTheorems, SequenceTheorems, WellFoundedInduction, TLAPS

-----------------------------------------------------------------------------
(* Types *)

Updates == {NoUpdate} \cup [at : Places, user : Users, kind : Kinds]
Calls == {NoOp} \cup [at : {"committed", "read"}, user : Users, to : BOOLEAN]

\* The types that do not depend on the windows.
Types ==
  /\ ban \in [Users -> 0..Ban + 1] /\ through \in [Users -> Nat]
  /\ update \in [Slots -> Updates]
  /\ isBlocked \in [Users -> BOOLEAN] /\ blocked \subseteq Users
  /\ op \in [Ops -> Calls]
  /\ maintenance \in BOOLEAN
  /\ apart \in [Users -> SUBSET {"api", "overlap", "load"}]

\* An update that waits for the role of its user.
IsWaiting(s) == update[s].at = "bypass"

\* A slot whose update has passed the limiter or is gone.
Passed(s) == \E x \in Updates : x.at # "bypass" /\ update' = [update EXCEPT ![s] = x]

\* An update that is under way has a user and a kind.
LEMMA UnderWay ==
  ASSUME Types, NEW s \in Slots, update[s] # NoUpdate
  PROVE update[s].user \in Users /\ update[s].kind \in Kinds
  BY DEF Types, Updates

\* A slot whose place is none has no update.
LEMMA NoneIsFree ==
  ASSUME Types, NEW s \in Slots, update[s].at # "none"
  PROVE update[s] # NoUpdate
  BY DEF NoUpdate

\* Moving an update on keeps its user and kind.
LEMMA GotoPasses ==
  ASSUME Types, NEW s \in Slots, update[s] # NoUpdate,
         NEW at \in Places \ {"bypass"}, Goto(s, at)
  PROVE Passed(s)
<1> DEFINE x == [update[s] EXCEPT !.at = at]
<1>1. update[s] \in [at : Places, user : Users, kind : Kinds]
  BY DEF Types, Updates
<1>2. x \in [at : Places, user : Users, kind : Kinds] /\ x.at = at
  BY <1>1
<1>3. update' = [update EXCEPT ![s] = x]
  BY DEF Goto
<1> QED BY <1>2, <1>3 DEF Passed, Updates

\* So does dropping it.
LEMMA DropPasses == ASSUME NEW s \in Slots, Drop(s) PROVE Passed(s)
  BY DEF Drop, Passed, Updates, NoUpdate

\* Behind the limiter an update waits for the limiter no more.
LEMMA AuthenticatePasses ==
  ASSUME Types, NEW s \in Slots, update[s] # NoUpdate, Authenticate(s)
  PROVE Passed(s)
<1>1. \/ Drop(s) \/ Goto(s, "maintenance") \/ Goto(s, "console") \/ Goto(s, "security")
  BY DEF Authenticate
<1> QED BY <1>1, GotoPasses, DropPasses DEF Places

-----------------------------------------------------------------------------
(* Type correctness, but for the ages *)

\* The bot starts with the types.
LEMMA InitTypes == Init => Types
<1> SUFFICES ASSUME Init PROVE Types
  OBVIOUS
<1>1. Ban + 1 \in 0..Ban + 1
  BY LimitsAssumption
<1>2. NoUpdate \in Updates /\ NoOp \in Calls
  BY DEF Updates, Calls
<1> QED BY <1>1, <1>2 DEF Init, Types

\* What has passed is of its type.
LEMMA PassedType ==
  ASSUME Types, NEW s \in Slots, Passed(s) PROVE update' \in [Slots -> Updates]
  BY DEF Types, Passed

\* Every step of an update keeps the types.
LEMMA UpdateTypes ==
  ASSUME Types, NEW s \in Slots,
         \/ Arrive(s) \/ Bypass(s) \/ Refuse(s) \/ Count(s)
         \/ Admit(s) \/ TurnAway(s) \/ Secure(s)
  PROVE Types'
<1> USE DEF limits, blocks
<1>0. \A u \in Users : through[u] \in Nat /\ through[u] + 1 \in Nat
  BY DEF Types
<1>1. CASE Arrive(s)
  <2>1. PICK u \in Users, k \in Kinds :
          update' = [update EXCEPT ![s] = [at |-> "bypass", user |-> u, kind |-> k]]
    BY <1>1 DEF Arrive
  <2>2. [at |-> "bypass", user |-> u, kind |-> k] \in Updates
    BY DEF Updates, Places
  <2>3. update' \in [Slots -> Updates]
    BY <2>1, <2>2 DEF Types
  <2> QED BY <1>1, <2>3 DEF Arrive, Types
<1>2. CASE Bypass(s)
  <2>1. Passed(s)
    BY <1>2, NoneIsFree, AuthenticatePasses DEF Bypass
  <2> QED BY <1>2, <2>1, PassedType DEF Bypass, Types
<1>3. CASE Refuse(s)
  <2>1. Passed(s)
    BY <1>3, DropPasses DEF Refuse
  <2>2. 0 \in 0..Ban + 1
    BY LimitsAssumption
  <2> QED BY <1>3, <2>1, <2>2, PassedType DEF Refuse, Types
<1>4. CASE Count(s)
  <2>1. Passed(s)
    BY <1>4, NoneIsFree, AuthenticatePasses, DropPasses DEF Count
  <2>2. \/ through' = through
        \/ \E u \in Users, n \in Nat : through' = [through EXCEPT ![u] = n]
    BY <1>0, <1>4, UnderWay, NoneIsFree DEF Count
  <2>3. through' \in [Users -> Nat]
    BY <2>2 DEF Types
  <2> QED BY <1>4, <2>1, <2>3, PassedType DEF Count, Types
<1>5. CASE Admit(s)
  <2>1. Passed(s)
    BY <1>5, NoneIsFree, GotoPasses DEF Admit, Places
  <2> QED BY <1>5, <2>1, PassedType DEF Admit, Types
<1>6. CASE TurnAway(s)
  BY <1>6, DropPasses, PassedType DEF TurnAway, Types
<1>7. CASE Secure(s)
  BY <1>7, DropPasses, PassedType DEF Secure, Types
<1> QED BY <1>1, <1>2, <1>3, <1>4, <1>5, <1>6, <1>7

\* So does every step of a call that blocks or unblocks.
LEMMA CallTypes ==
  ASSUME Types, NEW o \in Ops,
         CommitBlock(o) \/ Remember(o) \/ ReadToggle(o) \/ CommitToggle(o)
  PROVE Types'
<1> USE DEF limits, blocks
<1>0. NoOp \in Calls
  BY DEF Calls
<1>c. ASSUME op[o].at \in {"committed", "read"}
      PROVE op[o].user \in Users /\ op[o].to \in BOOLEAN
  BY <1>c DEF Types, Calls, NoOp
<1>1. CASE CommitBlock(o)
  <2>1. PICK u \in Users, to \in BOOLEAN :
          /\ isBlocked' = [isBlocked EXCEPT ![u] = to]
          /\ op' = [op EXCEPT ![o] = [at |-> "committed", user |-> u, to |-> to]]
          /\ apart' = [apart EXCEPT ![u] = IF Pending(u) = {} THEN {} ELSE @ \cup {"overlap"}]
    BY <1>1 DEF CommitBlock
  <2>2. [at |-> "committed", user |-> u, to |-> to] \in Calls
    BY DEF Calls
  <2>3. isBlocked' \in [Users -> BOOLEAN] /\ op' \in [Ops -> Calls]
    BY <2>1, <2>2 DEF Types
  <2>4. apart' \in [Users -> SUBSET {"api", "overlap", "load"}]
    BY <2>1 DEF Types
  <2> QED BY <1>1, <2>3, <2>4 DEF CommitBlock, Types
<1>2. CASE Remember(o)
  <2>1. op' \in [Ops -> Calls] /\ blocked' \subseteq Users
    BY <1>0, <1>2, <1>c DEF Remember, Types
  <2> QED BY <1>2, <2>1 DEF Remember, Types
<1>3. CASE ReadToggle(o)
  <2>1. PICK u \in Users :
          op' = [op EXCEPT ![o] = [at |-> "read", user |-> u, to |-> ~ isBlocked[u]]]
    BY <1>3 DEF ReadToggle
  <2>2. [at |-> "read", user |-> u, to |-> ~ isBlocked[u]] \in Calls
    BY DEF Calls
  <2>3. op' \in [Ops -> Calls]
    BY <2>1, <2>2 DEF Types
  <2> QED BY <1>3, <2>3 DEF ReadToggle, Types
<1>4. CASE CommitToggle(o)
  <2>1. op' \in [Ops -> Calls] /\ isBlocked' \in [Users -> BOOLEAN]
    BY <1>0, <1>4, <1>c DEF CommitToggle, Types
  <2>2. apart' \in [Users -> SUBSET {"api", "overlap", "load"}]
    BY <1>4 DEF CommitToggle, Types
  <2> QED BY <1>4, <2>1, <2>2 DEF CommitToggle, Types
<1> QED BY <1>1, <1>2, <1>3, <1>4

\* Every step keeps the types.
LEMMA StepTypes == Types /\ [Next]_vars => Types'
<1> SUFFICES ASSUME Types, [Next]_vars PROVE Types'
  OBVIOUS
<1> USE DEF limits, blocks
<1>1. CASE \E s \in Slots : \/ Arrive(s) \/ Bypass(s) \/ Refuse(s) \/ Count(s)
                            \/ Admit(s) \/ TurnAway(s) \/ Secure(s)
  BY <1>1, UpdateTypes
<1>2. CASE \E o \in Ops : CommitBlock(o) \/ Remember(o) \/ ReadToggle(o) \/ CommitToggle(o)
  BY <1>2, CallTypes
<1>3. CASE ToggleMaintenance
  BY <1>3 DEF ToggleMaintenance, Types
<1>4. CASE Restart
  <2>1. Ban + 1 \in 0..Ban + 1 /\ NoUpdate \in Updates /\ NoOp \in Calls
    BY LimitsAssumption DEF Updates, Calls
  <2>2. /\ blocked' \subseteq Users /\ maintenance' \in BOOLEAN
        /\ apart' \in [Users -> SUBSET {"api", "overlap", "load"}]
    BY <1>4 DEF Restart, Reset
  <2> QED BY <1>4, <2>1, <2>2 DEF Restart, Types
<1>5. CASE Tick
  <2>1. \A u \in Users : IF Banned(u) THEN ban[u] + 1 \in 0..Ban + 1 ELSE ban[u] \in 0..Ban + 1
    BY LimitsAssumption DEF Types, Banned
  <2>2. ban' \in [Users -> 0..Ban + 1]
    BY <1>5, <2>1 DEF Tick
  <2> QED BY <1>5, <2>2 DEF Tick, Types
<1>6. CASE UNCHANGED vars
  BY <1>6 DEF vars, Types
<1> QED BY <1>1, <1>2, <1>3, <1>4, <1>5, <1>6 DEF Next

-----------------------------------------------------------------------------
(* The ages of the requests *)

\* A nonempty set of natural numbers has a least element.
LEMMA SmallestNat ==
  ASSUME NEW T, T \subseteq Nat, T # {}
  PROVE  \E n \in T : \A m \in T : n <= m
<1> DEFINE R == {x \in Nat \X Nat : x[1] < x[2]}
<1>1. IsWellFoundedOn(R, Nat)
  BY NatLessThanWellFounded DEF OpToRel
<1>2. PICK n \in T : \A m \in T : <<m, n>> \notin R
  BY <1>1, WFMin
<1>3. ASSUME NEW m \in T, m < n PROVE <<m, n>> \in R
  BY <1>3
<1>4. \A m \in T : ~ (m < n)
  BY <1>2, <1>3
<1> HIDE DEF R
<1> QED
  BY <1>4

\* One tick later: nothing of an age that has left the window.
Later(age, window) == IF age + 1 < window THEN <<age + 1>> ELSE <<>>

\* The function that Aged builds up to length N, by its recursion.
Keeps(kept, ages, window, N) ==
  kept = [n \in 0..N |->
            IF n = 0 THEN <<>> ELSE kept[n - 1] \o Later(ages[n], window)]

\* There is such a function for every length: else there would be a least
\* length without one, and the function of the length before can be extended.
LEMMA KeepsExists ==
  ASSUME NEW ages, NEW window, NEW N \in Nat
  PROVE  \E kept : Keeps(kept, ages, window, N)
<1> DEFINE T == {n \in Nat : ~ \E kept : Keeps(kept, ages, window, n)}
<1>1. ASSUME T # {} PROVE FALSE
  <2>1. PICK n \in T : \A m \in T : n <= m
    BY <1>1, SmallestNat, T \subseteq Nat
  <2>2. n \in Nat
    OBVIOUS
  <2>3. CASE n = 0
    <3> DEFINE k == [m \in 0..0 |-> <<>>]
    <3>1. Keeps(k, ages, window, 0)
      BY DEF Keeps
    <3> QED
      BY <2>3, <3>1
  <2>4. CASE n # 0
    <3>1. n - 1 \in Nat /\ ~ (n <= n - 1)
      BY <2>2, <2>4
    <3>2. n - 1 \notin T
      <4> HIDE DEF T
      <4> QED
        BY <2>1, <3>1
    <3>3. PICK h : Keeps(h, ages, window, n - 1)
      BY <3>1, <3>2
    <3> DEFINE k == [m \in 0..n |->
                       IF m = 0 THEN <<>> ELSE h[m - 1] \o Later(ages[m], window)]
    <3>4. \A m \in 0..n - 1 :
            h[m] = IF m = 0 THEN <<>> ELSE h[m - 1] \o Later(ages[m], window)
      BY <3>3 DEF Keeps
    <3>5. \A m \in 0..n - 1 : k[m] = h[m]
      BY <2>2, <3>4
    <3>6. \A m \in 0..n : m # 0 => k[m - 1] = h[m - 1]
      <4> HIDE DEF k
      <4> QED
        BY <2>2, <3>5
    <3>7. Keeps(k, ages, window, n)
      BY <3>6 DEF Keeps
    <3> QED
      BY <3>7
  <2> QED
    BY <2>3, <2>4
<1> QED
  BY <1>1

\* What is kept of ages is a sequence of ages within the window.
LEMMA AgedTyped ==
  ASSUME NEW ages \in Seq(Nat), NEW window \in Nat
  PROVE  Aged(ages, window) \in Seq(0..window - 1)
<1>1. PICK kept : kept = CHOOSE k : Keeps(k, ages, window, Len(ages))
  OBVIOUS
<1>2. Len(ages) \in Nat /\ \A n \in 1..Len(ages) : ages[n] \in Nat
  OBVIOUS
<1>3. Keeps(kept, ages, window, Len(ages))
  BY <1>1, <1>2, KeepsExists
<1>4. Aged(ages, window) = kept[Len(ages)]
  BY <1>1 DEF Aged, Keeps, Later
<1> DEFINE T == {n \in 0..Len(ages) : kept[n] \notin Seq(0..window - 1)}
<1>5. ASSUME T # {} PROVE FALSE
  <2>1. PICK n \in T : \A m \in T : n <= m
    BY <1>5, <1>2, SmallestNat, T \subseteq Nat
  <2>2. n \in 0..Len(ages) /\ kept[n] \notin Seq(0..window - 1)
    OBVIOUS
  <2>3. n # 0
    <3>1. 0 \in 0..Len(ages)
      BY <1>2
    <3>2. kept[0] = <<>>
      BY <1>3, <3>1 DEF Keeps
    <3>3. <<>> \in Seq(0..window - 1)
      OBVIOUS
    <3> QED
      BY <2>2, <3>2, <3>3
  <2>4. n - 1 \in 0..Len(ages) /\ ~ (n <= n - 1) /\ n \in 1..Len(ages)
    BY <1>2, <2>2, <2>3
  <2>5. kept[n - 1] \in Seq(0..window - 1)
    BY <2>1, <2>4
  <2>6. Later(ages[n], window) \in Seq(0..window - 1)
    <3>1. ages[n] \in Nat
      BY <1>2, <2>4
    <3>2. ages[n] + 1 < window => ages[n] + 1 \in 0..window - 1
      BY <3>1
    <3> DEFINE W == 0..window - 1
    <3>2a. ages[n] + 1 < window => ages[n] + 1 \in W
      BY <3>2
    <3>3. \A x \in W : <<x>> \in Seq(W)
      <4> HIDE DEF W
      <4> QED
        OBVIOUS
    <3>4. <<>> \in Seq(W)
      OBVIOUS
    <3>5. \/ Later(ages[n], window) = <<>>
          \/ ages[n] + 1 < window /\ Later(ages[n], window) = <<ages[n] + 1>>
      BY Zenon DEF Later
    <3> HIDE DEF W
    <3>6. Later(ages[n], window) \in Seq(W)
      BY <3>2a, <3>3, <3>4, <3>5
    <3> QED
      BY <3>6 DEF W
  <2>7. kept[n] = kept[n - 1] \o Later(ages[n], window)
    BY <1>3, <2>2, <2>3 DEF Keeps
  <2> HIDE DEF T
  <2> QED
    BY <2>2, <2>5, <2>6, <2>7
<1> QED
  BY <1>2, <1>4, <1>5

\* The ages that are counted lie within their windows.
Ages ==
  /\ requests \in [Users -> Seq(0..Window - 1)]
  /\ \E f : actions = [a \in Actions |-> f[a]]
  /\ \A a \in Actions : actions[a] \in [Users -> Seq(0..ActionWindow[a] - 1)]

\* Ages within a window are ages, and a new request is within every window.
LEMMA WithinWindow ==
  ASSUME NEW w \in Nat \ {0}
  PROVE  /\ \A s \in Seq(0..w - 1) : s \in Seq(Nat) /\ Append(s, 0) \in Seq(0..w - 1)
         /\ <<>> \in Seq(0..w - 1)
<1>1. 0 \in 0..w - 1 /\ 0..w - 1 \subseteq Nat
  OBVIOUS
<1> QED
  BY <1>1

\* The bot starts with no requests, and nothing else than a check, a start and
\* time changes them.
LEMMA InitAges == Init => Ages
<1> SUFFICES ASSUME Init PROVE Ages
  OBVIOUS
<1>1. \A a \in Actions : ActionWindow[a] \in Nat \ {0}
  BY LimitsAssumption
<1>2. \A a \in Actions : <<>> \in Seq(0..ActionWindow[a] - 1)
  BY <1>1, WithinWindow
<1>3. <<>> \in Seq(0..Window - 1)
  BY LimitsAssumption, WithinWindow
<1>4. actions = [a \in Actions |-> actions[a]]
  BY DEF Init
<1>5. \A a \in Actions : actions[a] \in [Users -> Seq(0..ActionWindow[a] - 1)]
  BY <1>2 DEF Init
<1> QED
  BY <1>3, <1>4, <1>5 DEF Init, Ages

\* Every step keeps the ages within their windows.
LEMMA StepAges == Types /\ Ages /\ [Next]_vars => Ages'
<1> SUFFICES ASSUME Types, Ages, [Next]_vars PROVE Ages'
  OBVIOUS
<1> USE DEF limits, blocks
<1>w. Window \in Nat \ {0} /\ \A a \in Actions : ActionWindow[a] \in Nat \ {0}
  BY LimitsAssumption
<1>1. ASSUME NEW s \in Slots, Count(s) PROVE Ages'
  <2> DEFINE u == update[s].user
             k == update[s].kind
  <2>1. u \in Users
    BY <1>1, UnderWay, NoneIsFree DEF Count
  <2>2. requests' = [requests EXCEPT ![u] = Append(@, 0)]
    BY <1>1 DEF Count
  <2>3. \/ actions' = actions
        \/ \E a \in Actions : actions' = [actions EXCEPT ![a][u] = Append(@, 0)]
    BY <1>1 DEF Count, CountAction
  <2> HIDE DEF u
  <2>4. Append(requests[u], 0) \in Seq(0..Window - 1)
    BY <2>1, <1>w, WithinWindow DEF Ages
  <2>5. requests' \in [Users -> Seq(0..Window - 1)]
    BY <2>1, <2>2, <2>4 DEF Ages
  <2>6. ASSUME NEW a \in Actions, actions' = [actions EXCEPT ![a][u] = Append(@, 0)]
        PROVE  /\ actions' = [b \in Actions |-> actions'[b]]
               /\ \A b \in Actions : actions'[b] \in [Users -> Seq(0..ActionWindow[b] - 1)]
    <3>1. actions[a] \in [Users -> Seq(0..ActionWindow[a] - 1)]
      BY DEF Ages
    <3>2. Append(actions[a][u], 0) \in Seq(0..ActionWindow[a] - 1)
      BY <2>1, <3>1, <1>w, WithinWindow
    <3> DEFINE r == [actions[a] EXCEPT ![u] = Append(@, 0)]
    <3>3. r \in [Users -> Seq(0..ActionWindow[a] - 1)]
      BY <2>1, <3>1, <3>2
    <3>4. actions' = [actions EXCEPT ![a] = r]
      BY <2>6
    <3> HIDE DEF r
    <3> QED
      BY <3>3, <3>4 DEF Ages
  <2> QED
    BY <2>3, <2>5, <2>6 DEF Ages
<1>2. CASE Restart
  <2>1. \A a \in Actions : <<>> \in Seq(0..ActionWindow[a] - 1)
    BY <1>w, WithinWindow
  <2>2. <<>> \in Seq(0..Window - 1)
    BY <1>w, WithinWindow
  <2>3. \A a \in Actions : actions'[a] \in [Users -> Seq(0..ActionWindow[a] - 1)]
    BY <1>2, <2>1 DEF Restart
  <2>4. requests' \in [Users -> Seq(0..Window - 1)] /\ actions' = [a \in Actions |-> actions'[a]]
    BY <1>2, <2>2 DEF Restart
  <2> QED
    BY <2>3, <2>4 DEF Ages
<1>3. CASE Tick
  <2>1. ASSUME NEW u \in Users PROVE Aged(requests[u], Window) \in Seq(0..Window - 1)
    <3>1. requests[u] \in Seq(Nat)
      BY <1>w, WithinWindow DEF Ages
    <3> QED
      BY <3>1, <1>w, AgedTyped
  <2>2. ASSUME NEW a \in Actions, NEW u \in Users
        PROVE  Aged(actions[a][u], ActionWindow[a]) \in Seq(0..ActionWindow[a] - 1)
    <3>1. actions[a][u] \in Seq(0..ActionWindow[a] - 1)
      BY DEF Ages
    <3>2. actions[a][u] \in Seq(Nat)
      BY <3>1, <1>w, WithinWindow
    <3> QED
      BY <3>2, <1>w, AgedTyped
  <2>3. requests' \in [Users -> Seq(0..Window - 1)]
    BY <1>3, <2>1 DEF Tick
  <2>4. actions' = [a \in Actions |-> actions'[a]]
    BY <1>3 DEF Tick
  <2>5. \A a \in Actions : actions'[a] \in [Users -> Seq(0..ActionWindow[a] - 1)]
    BY <1>3, <2>2 DEF Tick
  <2> QED
    BY <2>3, <2>4, <2>5 DEF Ages
<1>4. ASSUME UNCHANGED <<requests, actions>> PROVE Ages'
  BY <1>4 DEF Ages
<1>5. ASSUME NEW s \in Slots, \/ Arrive(s) \/ Bypass(s) \/ Refuse(s)
                               \/ Admit(s) \/ TurnAway(s) \/ Secure(s)
      PROVE  Ages'
  BY <1>4, <1>5 DEF Arrive, Bypass, Refuse, Admit, TurnAway, Secure
<1>6. ASSUME NEW o \in Ops, CommitBlock(o) \/ Remember(o) \/ ReadToggle(o) \/ CommitToggle(o)
      PROVE  Ages'
  BY <1>4, <1>6 DEF CommitBlock, Remember, ReadToggle, CommitToggle
<1>7. CASE ToggleMaintenance \/ UNCHANGED vars
  BY <1>4, <1>7 DEF ToggleMaintenance, vars
<1> QED
  BY <1>1, <1>2, <1>3, <1>5, <1>6, <1>7 DEF Next

\* Every variable keeps its type: requests leave the lists when their window has
\* passed, a ban counts up to its end, and an update under way is of somebody.
THEOREM TypeCorrect == Spec => []TypeOK
<1>1. Types /\ Ages => TypeOK
  <2> SUFFICES ASSUME Types, Ages PROVE TypeOK
    OBVIOUS
  <2>1. \A a \in Actions : actions[a] \in [Users -> Seq(Nat)]
    <3>1. \A a \in Actions : ActionWindow[a] \in Nat \ {0}
      BY LimitsAssumption
    <3> QED
      BY <3>1, WithinWindow DEF Ages
  <2>2. actions \in [Actions -> [Users -> Seq(Nat)]]
    BY <2>1 DEF Ages
  <2> QED
    BY <2>2 DEF Types, Ages, TypeOK, Updates, Calls
<1>2. Init => Types /\ Ages
  BY InitTypes, InitAges
<1>3. Types /\ Ages /\ [Next]_vars => (Types /\ Ages)'
  BY StepTypes, StepAges
<1> QED
  BY <1>1, <1>2, <1>3, PTL DEF Spec

-----------------------------------------------------------------------------
(* The rate limiter *)

\* There are finitely many slots, so that waiting updates can be counted.
LEMMA Countable ==
  ASSUME NEW S \in SUBSET Slots
  PROVE IsFiniteSet(S) /\ Cardinality(S) \in Nat /\ Cardinality(S) <= Cardinality(Slots)
  BY KindsAssumption, FS_Subset, FS_CardinalityType

\* One update less is waiting, or none of these was waiting, after a step that
\* passes the limiter.
LEMMA OneLess ==
  ASSUME Types, NEW s \in Slots, Passed(s), NEW u \in Users
  PROVE Waiting(u)' = Waiting(u) \ {s}
<1>1. PICK x \in Updates : x.at # "bypass" /\ update' = [update EXCEPT ![s] = x]
  BY DEF Passed
<1>2. update'[s] = x /\ \A t \in Slots \ {s} : update'[t] = update[t]
  BY <1>1 DEF Types
<1> QED BY <1>1, <1>2 DEF Waiting

\* Then there are fewer waiting updates than slots.
LEMMA FewerThanSlots ==
  ASSUME NEW S \in SUBSET Slots, NEW s \in Slots
  PROVE Cardinality(S \ {s}) < Cardinality(Slots)
<1>1. Cardinality(Slots \ {s}) = Cardinality(Slots) - 1
  BY KindsAssumption, FS_RemoveElement
<1>2. Cardinality(S \ {s}) <= Cardinality(Slots \ {s})
  BY Countable, FS_Subset
<1>3. Cardinality(Slots) \in Nat /\ Cardinality(S \ {s}) \in Nat
  BY Countable
<1> QED BY <1>1, <1>2, <1>3

\* And one that was counted as waiting is one less.
LEMMA CountedLess ==
  ASSUME NEW S \in SUBSET Slots
  PROVE /\ \A s \in S : Cardinality(S \ {s}) = Cardinality(S) - 1
        /\ \A s \in Slots : Cardinality(S \ {s}) <= Cardinality(S)
<1>1. IsFiniteSet(S)
  BY Countable
<1>2. \A s \in S : Cardinality(S \ {s}) = Cardinality(S) - 1
  BY <1>1, FS_RemoveElement
<1>3. \A s \in Slots : Cardinality(S \ {s}) <= Cardinality(S)
  BY <1>1, FS_Subset
<1> QED BY <1>2, <1>3

\* Who is waiting depends on the updates alone.
LEMMA SameWaiting == ASSUME update' = update, NEW u PROVE Waiting(u)' = Waiting(u)
  BY DEF Waiting

\* A step of an update keeps what the theorem says: the update that is let
\* through was waiting, and a ban begins with one that is refused.
LEMMA UpdateLimit ==
  ASSUME Types, OnlyWaitingGetThrough, NEW s \in Slots,
         \/ Arrive(s) \/ Bypass(s) \/ Refuse(s) \/ Count(s)
         \/ Admit(s) \/ TurnAway(s) \/ Secure(s)
  PROVE OnlyWaitingGetThrough'
<1> SUFFICES ASSUME NEW u \in Users, Banned(u)'
             PROVE through'[u] + Cardinality(Waiting(u)') < Cardinality(Slots)
  BY DEF OnlyWaitingGetThrough
<1> USE DEF limits, blocks
<1>n. /\ Cardinality(Slots) \in Nat /\ through[u] \in Nat
      /\ Waiting(u) \in SUBSET Slots /\ Cardinality(Waiting(u)) \in Nat
      /\ Cardinality(Waiting(u) \ {s}) \in Nat
  BY Countable DEF Types, Waiting
<1>l. Passed(s) => Waiting(u)' = Waiting(u) \ {s}
  BY OneLess
<1>k. ASSUME Passed(s), ban' = ban, through' = through
      PROVE through'[u] + Cardinality(Waiting(u)') < Cardinality(Slots)
  <2>1. Banned(u)
    BY <1>k DEF Banned
  <2>2. through[u] + Cardinality(Waiting(u)) < Cardinality(Slots)
    BY <2>1 DEF OnlyWaitingGetThrough
  <2>3. Cardinality(Waiting(u) \ {s}) <= Cardinality(Waiting(u))
    BY <1>n, CountedLess
  <2>4. Cardinality(Waiting(u)') = Cardinality(Waiting(u) \ {s})
    BY <1>k, <1>l
  <2>5. through'[u] = through[u]
    BY <1>k
  <2> QED BY <1>n, <2>2, <2>3, <2>4, <2>5
<1>1. CASE Arrive(s)
  <2>1. PICK v \in Users, k \in Kinds :
          /\ ~ Banned(v)
          /\ update' = [update EXCEPT ![s] = [at |-> "bypass", user |-> v, kind |-> k]]
    BY <1>1 DEF Arrive
  <2>2. Banned(u) /\ u # v
    BY <1>1, <2>1 DEF Arrive, Banned
  <2>3. /\ update'[s] = [at |-> "bypass", user |-> v, kind |-> k]
        /\ \A t \in Slots \ {s} : update'[t] = update[t]
    BY <2>1 DEF Types
  <2>4. Waiting(u)' = Waiting(u)
    BY <1>1, <2>2, <2>3 DEF Waiting, Arrive, NoUpdate
  <2> QED BY <1>1, <2>2, <2>4 DEF Arrive, OnlyWaitingGetThrough
<1>2. CASE Bypass(s)
  <2>1. Passed(s)
    BY <1>2, NoneIsFree, AuthenticatePasses DEF Bypass
  <2> QED BY <1>2, <1>k, <2>1 DEF Bypass
<1>3. CASE Refuse(s)
  <2>1. Passed(s)
    BY <1>3, DropPasses DEF Refuse
  <2>2. CASE u = update[s].user
    <3>1. through'[u] = 0
      BY <1>3, <2>2 DEF Refuse, Types
    <3>2. Cardinality(Waiting(u) \ {s}) < Cardinality(Slots)
      BY <1>n, FewerThanSlots
    <3> QED BY <1>l, <1>n, <2>1, <3>1, <3>2
  <2>3. CASE u # update[s].user
    <3>1. through'[u] = through[u] /\ ban'[u] = ban[u]
      BY <1>3, <2>3 DEF Refuse, Types
    <3>2. through[u] + Cardinality(Waiting(u)) < Cardinality(Slots)
      BY <3>1 DEF Banned, OnlyWaitingGetThrough
    <3>3. Cardinality(Waiting(u) \ {s}) <= Cardinality(Waiting(u))
      BY <1>n, CountedLess
    <3> QED BY <1>l, <1>n, <2>1, <3>1, <3>2, <3>3
  <2> QED BY <2>2, <2>3
<1>4. CASE Count(s)
  <2>1. Passed(s) /\ ban' = ban
    BY <1>4, NoneIsFree, AuthenticatePasses, DropPasses DEF Count
  <2>2. Banned(u) /\ through[u] + Cardinality(Waiting(u)) < Cardinality(Slots)
    BY <2>1 DEF Banned, OnlyWaitingGetThrough
  <2>3. CASE u = update[s].user
    <3>1. s \in Waiting(u)
      BY <1>4, <2>3 DEF Count, Waiting
    <3>2. Cardinality(Waiting(u) \ {s}) = Cardinality(Waiting(u)) - 1
      BY <1>n, <3>1, CountedLess
    <3>3. through'[u] \in {through[u], through[u] + 1}
      BY <1>4, <2>2, <2>3 DEF Count, Types
    <3> QED BY <1>l, <1>n, <2>1, <2>2, <3>2, <3>3
  <2>4. CASE u # update[s].user
    <3>1. through'[u] = through[u]
      BY <1>4, <2>4 DEF Count, Types
    <3>2. Cardinality(Waiting(u) \ {s}) <= Cardinality(Waiting(u))
      BY <1>n, CountedLess
    <3>3. Cardinality(Waiting(u)') = Cardinality(Waiting(u) \ {s})
      BY <1>l, <2>1
    <3> QED BY <1>n, <2>2, <3>1, <3>2, <3>3
  <2> QED BY <2>3, <2>4
<1>5. CASE Admit(s)
  <2>1. Passed(s)
    BY <1>5, NoneIsFree, GotoPasses DEF Admit, Places
  <2> QED BY <1>5, <1>k, <2>1 DEF Admit
<1>6. CASE TurnAway(s)
  BY <1>6, <1>k, DropPasses DEF TurnAway
<1>7. CASE Secure(s)
  BY <1>7, <1>k, DropPasses DEF Secure
<1> QED BY <1>1, <1>2, <1>3, <1>4, <1>5, <1>6, <1>7

\* Every step keeps it: time only takes users out of their bans.
LEMMA StepLimit == Types /\ OnlyWaitingGetThrough /\ [Next]_vars => OnlyWaitingGetThrough'
<1> SUFFICES ASSUME Types, OnlyWaitingGetThrough, [Next]_vars PROVE OnlyWaitingGetThrough'
  OBVIOUS
<1> USE DEF limits, blocks
<1>k. ASSUME update' = update, through' = through, \A u \in Users : Banned(u)' => Banned(u)
      PROVE OnlyWaitingGetThrough'
  BY <1>k, SameWaiting DEF OnlyWaitingGetThrough
<1>1. CASE \E s \in Slots : \/ Arrive(s) \/ Bypass(s) \/ Refuse(s) \/ Count(s)
                            \/ Admit(s) \/ TurnAway(s) \/ Secure(s)
  BY <1>1, UpdateLimit
<1>2. CASE \E o \in Ops : CommitBlock(o) \/ Remember(o) \/ ReadToggle(o) \/ CommitToggle(o)
  BY <1>2, <1>k DEF CommitBlock, Remember, ReadToggle, CommitToggle, Banned
<1>3. CASE ToggleMaintenance
  BY <1>3, <1>k DEF ToggleMaintenance, Banned
<1>4. CASE Restart
  BY <1>4, LimitsAssumption DEF Restart, OnlyWaitingGetThrough, Banned
<1>5. CASE Tick
  <2>1. \A u \in Users : ban'[u] = IF Banned(u) THEN ban[u] + 1 ELSE ban[u]
    BY <1>5 DEF Tick
  <2>2. \A u \in Users : Banned(u)' => Banned(u)
    BY <2>1, LimitsAssumption DEF Types, Banned
  <2> QED BY <1>5, <1>k, <2>2 DEF Tick
<1>6. CASE UNCHANGED vars
  BY <1>6, <1>k DEF vars, Banned
<1> QED BY <1>1, <1>2, <1>3, <1>4, <1>5, <1>6 DEF Next

\* While a user is banned, only updates that were waiting when the ban began get
\* past the limiter: fewer than are under way at once, for any limits and however
\* many users there are.
THEOREM OnlyWaiting == Spec => []OnlyWaitingGetThrough
<1>1. Init => Types /\ OnlyWaitingGetThrough
  <2>1. Init => OnlyWaitingGetThrough
    BY LimitsAssumption DEF Init, OnlyWaitingGetThrough, Banned
  <2> QED BY <2>1, InitTypes
<1>2. Types /\ OnlyWaitingGetThrough /\ [Next]_vars => (Types /\ OnlyWaitingGetThrough)'
  BY StepTypes, StepLimit
<1> QED BY <1>1, <1>2, PTL DEF Spec

-----------------------------------------------------------------------------
(* The blocked users *)

\* What the set in memory will be: it agrees with the table, or the one call
\* that is about to change it will make it agree.
WillAgree(u) ==
  \/ Pending(u) = {} /\ (u \in blocked <=> isBlocked[u])
  \/ \E o \in Ops : Pending(u) = {o} /\ op[o].to = isBlocked[u]
Agreement == \A u \in Users : apart[u] = {} => WillAgree(u)

\* Agreement is about the calls and the two sides only.
LEMMA SameCalls ==
  ASSUME op' = op, blocked' = blocked, isBlocked' = isBlocked, apart' = apart, Agreement
  PROVE Agreement'
  BY DEF Agreement, WillAgree, Pending

\* A call that blocks or unblocks leaves the agreement it found, ...
LEMMA CommitAgrees ==
  ASSUME Types, Agreement, NEW o \in Ops, CommitBlock(o) PROVE Agreement'
<1>1. PICK u \in Users, to \in BOOLEAN :
        /\ isBlocked' = [isBlocked EXCEPT ![u] = to]
        /\ op' = [op EXCEPT ![o] = [at |-> "committed", user |-> u, to |-> to]]
        /\ apart' = [apart EXCEPT ![u] = IF Pending(u) = {} THEN {} ELSE @ \cup {"overlap"}]
  BY DEF CommitBlock
<1>2. /\ op'[o] = [at |-> "committed", user |-> u, to |-> to]
      /\ \A q \in Ops \ {o} : op'[q] = op[q]
      /\ op[o] = NoOp /\ blocked' = blocked
  BY <1>1 DEF Types, CommitBlock
<1>3. Pending(u)' = Pending(u) \cup {o}
  BY <1>2 DEF Pending
<1>4. \A v \in Users \ {u} : /\ Pending(v)' = Pending(v) /\ o \notin Pending(v)
                             /\ apart'[v] = apart[v] /\ isBlocked'[v] = isBlocked[v]
  BY <1>1, <1>2 DEF Pending, NoOp, Types
<1>5. ASSUME apart'[u] = {} PROVE WillAgree(u)'
  <2>1. Pending(u) = {}
    BY <1>1, <1>5 DEF Types
  <2>2. Pending(u)' = {o} /\ op'[o].to = isBlocked'[u]
    BY <1>1, <1>2, <1>3, <2>1 DEF Types
  <2> QED BY <2>2 DEF WillAgree
<1>6. ASSUME NEW v \in Users \ {u}, apart'[v] = {} PROVE WillAgree(v)'
  <2>1. WillAgree(v)
    BY <1>4, <1>6 DEF Agreement
  <2>2. \A q \in Pending(v) : op'[q] = op[q]
    BY <1>2, <1>4 DEF Pending
  <2> QED BY <1>2, <1>4, <2>1, <2>2 DEF WillAgree
<1> QED BY <1>5, <1>6 DEF Agreement

\* ... and the set in memory follows the last of them.
LEMMA RememberAgrees ==
  ASSUME Types, Agreement, NEW o \in Ops, Remember(o) PROVE Agreement'
<1>1. op[o] \in [at : {"committed", "read"}, user : Users, to : BOOLEAN]
  BY DEF Remember, Types, Calls, NoOp
<1>u. PICK u \in Users : u = op[o].user
  BY <1>1
<1>2. /\ op'[o] = NoOp /\ \A q \in Ops \ {o} : op'[q] = op[q]
      /\ isBlocked' = isBlocked /\ apart' = apart /\ o \in Pending(u)
  BY <1>u DEF Types, Remember, Pending
<1>3. Pending(u)' = Pending(u) \ {o}
  BY <1>2 DEF Pending, NoOp
<1>4. \A v \in Users \ {u} : /\ Pending(v)' = Pending(v) /\ o \notin Pending(v)
                             /\ (v \in blocked' <=> v \in blocked)
  BY <1>u, <1>2 DEF Pending, NoOp, Remember
<1>5. ASSUME apart'[u] = {} PROVE WillAgree(u)'
  <2>1. Pending(u) = {o} /\ op[o].to = isBlocked[u]
    BY <1>1, <1>2, <1>5 DEF Agreement, WillAgree
  <2>2. Pending(u)' = {}
    BY <1>3, <2>1
  <2>3. u \in blocked' <=> op[o].to
    BY <1>1, <1>u DEF Remember
  <2> QED BY <1>2, <2>1, <2>2, <2>3 DEF WillAgree
<1>6. ASSUME NEW v \in Users \ {u}, apart'[v] = {} PROVE WillAgree(v)'
  <2>1. WillAgree(v)
    BY <1>2, <1>6 DEF Agreement
  <2>2. \A q \in Pending(v) : op'[q] = op[q]
    BY <1>2, <1>4 DEF Pending
  <2> QED BY <1>2, <1>4, <2>1, <2>2 DEF WillAgree
<1> QED BY <1>5, <1>6 DEF Agreement

\* The admin API sets the user apart when it commits.
LEMMA ToggleAgrees ==
  ASSUME Types, Agreement, NEW o \in Ops, ReadToggle(o) \/ CommitToggle(o)
  PROVE Agreement'
<1>1. /\ \A q \in Ops \ {o} : op'[q] = op[q] /\ blocked' = blocked
      /\ op[o].at # "committed" /\ op'[o].at # "committed"
  BY DEF Types, ReadToggle, CommitToggle, NoOp
<1>2. \A v \in Users : Pending(v)' = Pending(v) /\ \A q \in Pending(v) : op'[q] = op[q]
  BY <1>1 DEF Pending
<1>3. ASSUME NEW v \in Users, apart'[v] = {}
      PROVE apart[v] = {} /\ isBlocked'[v] = isBlocked[v]
  BY <1>3 DEF ReadToggle, CommitToggle, Types
<1>4. blocked' = blocked
  BY DEF ReadToggle, CommitToggle
<1> QED BY <1>2, <1>3, <1>4 DEF Agreement, WillAgree

\* Every step keeps the agreement; a start makes it anew, or fails to.
LEMMA StepAgrees == Types /\ Agreement /\ [Next]_vars => Agreement'
<1> SUFFICES ASSUME Types, Agreement, [Next]_vars PROVE Agreement'
  OBVIOUS
<1> USE DEF limits, blocks
<1>1. CASE \E s \in Slots : \/ Arrive(s) \/ Bypass(s) \/ Refuse(s) \/ Count(s)
                            \/ Admit(s) \/ TurnAway(s) \/ Secure(s)
  BY <1>1, SameCalls DEF Arrive, Bypass, Refuse, Count, Admit, TurnAway, Secure
<1>2. CASE \E o \in Ops : CommitBlock(o) \/ Remember(o) \/ ReadToggle(o) \/ CommitToggle(o)
  BY <1>2, CommitAgrees, RememberAgrees, ToggleAgrees
<1>3. CASE ToggleMaintenance
  BY <1>3, SameCalls DEF ToggleMaintenance
<1>4. CASE Restart
  <2>1. \A u \in Users : Pending(u)' = {}
    BY <1>4 DEF Restart, Pending, NoOp
  <2>2. \A u \in Users : apart'[u] = {} => (u \in blocked' <=> isBlocked'[u])
    BY <1>4 DEF Restart, Reset
  <2> QED BY <2>1, <2>2 DEF Agreement, WillAgree
<1>5. CASE Tick
  BY <1>5, SameCalls DEF Tick
<1>6. CASE UNCHANGED vars
  BY <1>6, SameCalls DEF vars
<1> QED BY <1>1, <1>2, <1>3, <1>4, <1>5, <1>6 DEF Next

\* Between the calls that change it, the set of blocked users in memory is the one
\* of the table, unless the admin API, overlapping calls or a failed start have
\* made them differ.
THEOREM MemoryFollows == Spec => []MemoryAgrees
<1>1. Init => Types /\ Agreement
  <2> SUFFICES ASSUME Init PROVE Types /\ Agreement
    OBVIOUS
  <2>1. \A u \in Users : Pending(u) = {} /\ u \notin blocked /\ ~ isBlocked[u]
    BY DEF Init, Pending, NoOp
  <2> QED BY <2>1, InitTypes DEF Agreement, WillAgree
<1>2. Types /\ Agreement /\ [Next]_vars => (Types /\ Agreement)'
  BY StepTypes, StepAgrees
<1>3. Agreement => MemoryAgrees
  BY DEF Agreement, WillAgree, MemoryAgrees
<1> QED BY <1>1, <1>2, <1>3, PTL DEF Spec

-----------------------------------------------------------------------------
(* Lists: sequences of rows *)

\* Two sequences joined, by their elements.
IsJoined(S, a, b, c) ==
  /\ c \in Seq(S) /\ Len(c) = Len(a) + Len(b)
  /\ \A j \in 1..Len(a) + Len(b) : c[j] = IF j <= Len(a) THEN a[j] ELSE b[j - Len(a)]

\* They are joined by concatenation.
LEMMA Joined ==
  ASSUME NEW S, NEW a \in Seq(S), NEW b \in Seq(S)
  PROVE  IsJoined(S, a, b, a \o b)
BY ConcatProperties DEF IsJoined

\* p has one row e more than q, at place i.
RowAdded(S, q, i, e, p) ==
  /\ p \in Seq(S) /\ Len(p) = Len(q) + 1
  /\ \A j \in 1..Len(q) + 1 : p[j] = IF j < i THEN q[j] ELSE IF j = i THEN e ELSE q[j - 1]

\* p has one row less than q, the one at place i.
RowTaken(S, q, i, p) ==
  /\ p \in Seq(S) /\ Len(p) = Len(q) - 1
  /\ \A j \in 1..Len(q) - 1 : p[j] = IF j < i THEN q[j] ELSE q[j + 1]

\* What is inserted comes between the others.
LEMMA Inserted ==
  ASSUME NEW S, NEW q \in Seq(S), NEW e \in S, NEW i \in 1..Len(q) + 1
  PROVE  RowAdded(S, q, i, e, InsertAt(q, i, e))
<1> DEFINE a == SubSeq(q, 1, i - 1)
           b == SubSeq(q, i, Len(q))
<1>1. Len(q) \in Nat /\ i \in 1..Len(q) + 1
  OBVIOUS
<1>2. /\ a \in Seq(S) /\ Len(a) = i - 1 /\ \A j \in 1..i - 1 : a[j] = q[j]
      /\ b \in Seq(S) /\ Len(b) = Len(q) - i + 1
      /\ \A j \in 1..Len(q) - i + 1 : b[j] = q[i + j - 1]
  <2>1. \A j \in 1..i - 1 : q[j] \in S
    BY <1>1
  <2> QED
    BY <1>1, <2>1, SubSeqProperties
<1>3. InsertAt(q, i, e) = a \o <<e>> \o b
  BY DEF InsertAt
<1> HIDE DEF a, b
<1>4. PICK o : o = <<e>>
  OBVIOUS
<1>5. o \in Seq(S) /\ Len(o) = 1 /\ o[1] = e
  BY <1>4
<1>6. PICK c : c = a \o o
  OBVIOUS
<1>7. /\ c \in Seq(S) /\ Len(c) = i /\ c[i] = e
      /\ \A j \in 1..i - 1 : c[j] = q[j]
  <2>1. IsJoined(S, a, o, c)
    BY <1>2, <1>5, <1>6, Joined
  <2>2. /\ c \in Seq(S) /\ Len(c) = i
        /\ \A j \in 1..i : c[j] = IF j <= i - 1 THEN a[j] ELSE o[j - (i - 1)]
    BY <1>1, <1>2, <1>5, <2>1 DEF IsJoined
  <2> QED
    BY <1>1, <1>2, <1>5, <2>2
<1>8. PICK p : p = c \o b
  OBVIOUS
<1>9. /\ p \in Seq(S) /\ Len(p) = Len(q) + 1
      /\ \A j \in 1..Len(q) + 1 : p[j] = IF j <= i THEN c[j] ELSE b[j - i]
  <2>1. IsJoined(S, c, b, p)
    BY <1>2, <1>7, <1>8, Joined
  <2> QED
    BY <1>1, <1>2, <1>7, <2>1 DEF IsJoined
<1>10. ASSUME NEW j \in 1..Len(q) + 1, j > i PROVE b[j - i] = q[j - 1]
  BY <1>1, <1>2, <1>10
<1>11. p = InsertAt(q, i, e)
  BY <1>3, <1>4, <1>6, <1>8
<1> QED
  BY <1>1, <1>7, <1>9, <1>10, <1>11 DEF RowAdded

\* What is removed leaves the others.
LEMMA Removed ==
  ASSUME NEW S, NEW q \in Seq(S), NEW i \in 1..Len(q)
  PROVE  RowTaken(S, q, i, RemoveAt(q, i))
<1> DEFINE a == SubSeq(q, 1, i - 1)
           b == SubSeq(q, i + 1, Len(q))
<1>1. Len(q) \in Nat /\ i \in 1..Len(q)
  OBVIOUS
<1>2. /\ a \in Seq(S) /\ Len(a) = i - 1 /\ \A j \in 1..i - 1 : a[j] = q[j]
      /\ b \in Seq(S) /\ Len(b) = Len(q) - i
      /\ \A j \in 1..Len(q) - i : b[j] = q[i + j]
  <2>1. \A j \in 1..i - 1 : q[j] \in S
    BY <1>1
  <2> QED
    BY <1>1, <2>1, SubSeqProperties
<1>3. RemoveAt(q, i) = a \o b
  BY DEF RemoveAt
<1> HIDE DEF a, b
<1>4. PICK p : p = a \o b
  OBVIOUS
<1>5. /\ p \in Seq(S) /\ Len(p) = Len(q) - 1
      /\ \A j \in 1..Len(q) - 1 : p[j] = IF j <= i - 1 THEN a[j] ELSE b[j - (i - 1)]
  <2>1. IsJoined(S, a, b, p)
    BY <1>2, <1>4, Joined
  <2> QED
    BY <1>1, <1>2, <2>1 DEF IsJoined
<1>6. ASSUME NEW j \in 1..Len(q) - 1, j >= i PROVE b[j - (i - 1)] = q[j + 1]
  BY <1>1, <1>2, <1>6
<1>7. RowTaken(S, q, i, p)
  BY <1>1, <1>2, <1>5, <1>6 DEF RowTaken
<1> QED
  BY <1>3, <1>4, <1>7

\* Rows without repetitions stay without: when a new one comes, ...
LEMMA InsertedOnce ==
  ASSUME NEW S, NEW q \in Seq(S), IsInjective(q), NEW e \in S, e \notin Range(q),
         NEW i \in 1..Len(q) + 1
  PROVE  IsInjective(InsertAt(q, i, e))
<1> DEFINE p == InsertAt(q, i, e)
<1>1. /\ p \in Seq(S) /\ Len(p) = Len(q) + 1 /\ Len(q) \in Nat
      /\ \A j \in 1..Len(q) + 1 :
           p[j] = IF j < i THEN q[j] ELSE IF j = i THEN e ELSE q[j - 1]
  <2>1. RowAdded(S, q, i, e, p)
    BY Inserted
  <2> HIDE DEF p
  <2> QED
    BY <2>1 DEF RowAdded
<1>2. \A j \in 1..Len(q) : q[j] # e
  BY DEF Range
<1>3. \A j, k \in 1..Len(q) : q[j] = q[k] => j = k
  BY DEF IsInjective
<1> HIDE DEF p
<1>4. ASSUME NEW j \in 1..Len(q) + 1, NEW k \in 1..Len(q) + 1, p[j] = p[k] PROVE j = k
  <2> DEFINE J == IF j < i THEN j ELSE j - 1
             K == IF k < i THEN k ELSE k - 1
  <2>1. /\ j # i => J \in 1..Len(q) /\ p[j] = q[J]
        /\ k # i => K \in 1..Len(q) /\ p[k] = q[K]
    BY <1>1
  <2>2. CASE j = i \/ k = i
    BY <1>1, <1>2, <1>4, <2>1, <2>2
  <2>3. CASE j # i /\ k # i
    <3>1. J = K
      BY <1>3, <1>4, <2>1, <2>3
    <3> QED
      BY <3>1, <2>3
  <2> QED
    BY <2>2, <2>3
<1>5. DOMAIN p = 1..Len(q) + 1
  BY <1>1
<1> QED
  BY <1>4, <1>5 DEF IsInjective, p

\* ... and when one goes.
LEMMA RemovedOnce ==
  ASSUME NEW S, NEW q \in Seq(S), IsInjective(q), NEW i \in 1..Len(q)
  PROVE  IsInjective(RemoveAt(q, i))
<1> DEFINE p == RemoveAt(q, i)
<1>1. /\ p \in Seq(S) /\ Len(p) = Len(q) - 1 /\ Len(q) \in Nat
      /\ \A j \in 1..Len(q) - 1 : p[j] = IF j < i THEN q[j] ELSE q[j + 1]
  <2>1. RowTaken(S, q, i, p)
    BY Removed
  <2> HIDE DEF p
  <2> QED
    BY <2>1 DEF RowTaken
<1>2. \A j, k \in 1..Len(q) : q[j] = q[k] => j = k
  BY DEF IsInjective
<1> HIDE DEF p
<1>3. ASSUME NEW j \in 1..Len(q) - 1, NEW k \in 1..Len(q) - 1, p[j] = p[k] PROVE j = k
  <2> DEFINE J == IF j < i THEN j ELSE j + 1
             K == IF k < i THEN k ELSE k + 1
  <2>1. J \in 1..Len(q) /\ p[j] = q[J] /\ K \in 1..Len(q) /\ p[k] = q[K]
    BY <1>1
  <2>2. J = K
    BY <1>2, <1>3, <2>1
  <2> QED
    BY <2>2
<1>4. DOMAIN p = 1..Len(q) - 1
  BY <1>1
<1> QED
  BY <1>3, <1>4 DEF IsInjective, p

\* ... and when two neighbours change places.
LEMMA Swapped ==
  ASSUME NEW S, NEW q \in Seq(S), IsInjective(q), NEW i \in 1..Len(q) - 1,
         NEW p, p = [q EXCEPT ![i] = q[i + 1], ![i + 1] = q[i]]
  PROVE  p \in Seq(S) /\ IsInjective(p)
<1>1. Len(q) \in Nat /\ DOMAIN q = 1..Len(q) /\ i + 1 \in 1..Len(q) /\ i \in 1..Len(q)
  OBVIOUS
<1>2. /\ DOMAIN p = 1..Len(q)
      /\ \A j \in 1..Len(q) :
           p[j] = IF j = i + 1 THEN q[i] ELSE IF j = i THEN q[i + 1] ELSE q[j]
  BY <1>1
<1>3. \A j, k \in 1..Len(q) : q[j] = q[k] => j = k
  BY <1>1 DEF IsInjective
<1>4. p \in Seq(S)
  <2>1. \A j \in 1..Len(q) : q[j] \in S
    BY <1>1
  <2>2. \A j \in 1..Len(q) : p[j] \in S
    BY <1>1, <1>2, <2>1
  <2>3. p = [j \in 1..Len(q) |-> p[j]]
    BY <1>1, <1>2
  <2> QED
    BY <1>1, <2>2, <2>3
<1>5. ASSUME NEW j \in 1..Len(q), NEW k \in 1..Len(q), p[j] = p[k] PROVE j = k
  <2> DEFINE J == IF j = i + 1 THEN i ELSE IF j = i THEN i + 1 ELSE j
             K == IF k = i + 1 THEN i ELSE IF k = i THEN i + 1 ELSE k
  <2>1. J \in 1..Len(q) /\ p[j] = q[J] /\ K \in 1..Len(q) /\ p[k] = q[K]
    BY <1>1, <1>2
  <2>2. J = K
    BY <1>3, <1>5, <2>1
  <2> QED
    BY <2>2
<1> QED
  BY <1>2, <1>4, <1>5 DEF IsInjective

-----------------------------------------------------------------------------
(* Lists: pages *)

\* The number of the last row of a page, if the page is full.
LastOf(page) == (page + 1) * PerPage

\* Products with PerPage.
LEMMA Times ==
  ASSUME NEW p \in Int, NEW q \in Int
  PROVE  /\ p * PerPage \in Int
         /\ p <= q => p * PerPage <= q * PerPage
         /\ (p + 1) * PerPage = p * PerPage + PerPage
         /\ (p - 1) * PerPage = p * PerPage - PerPage
         /\ p \in Nat => p * PerPage \in Nat
<1>1. PerPage \in Nat \ {0}
  BY ListsAssumption
<1> QED
  BY <1>1

\* The last row of a page has a number.
LEMMA LastNat == ASSUME NEW page \in Nat PROVE LastOf(page) \in Nat
<1>1. PICK x \in Nat : x = page + 1
  OBVIOUS
<1>2. x * PerPage \in Nat
  BY Times
<1> QED
  BY <1>1, <1>2 DEF LastOf

\* Quotients by PerPage.
LEMMA Quotient ==
  ASSUME NEW t \in Nat
  PROVE  /\ t \div PerPage \in Nat /\ (t \div PerPage) * PerPage <= t
         /\ t < (t \div PerPage) * PerPage + PerPage
<1>1. PerPage \in Nat \ {0}
  BY ListsAssumption
<1> QED
  BY <1>1

\* There is a next page exactly if there are rows behind this one.
LEMMA NextIsShown ==
  ASSUME NEW t \in Nat, NEW page \in Nat
  PROVE  (TotalPages(t) > 1 /\ page < TotalPages(t) - 1) <=> LastOf(page) < t
<1>1. PerPage \in Nat \ {0}
  BY ListsAssumption
<1>2. CASE t = 0
  <2>1. LastOf(page) \in Nat
    BY LastNat
  <2> QED
    BY <1>2, <2>1 DEF TotalPages
<1>3. CASE t # 0
  <2> DEFINE u == t + PerPage - 1
             q == u \div PerPage
  <2>1. u \in Nat /\ TotalPages(t) = q
    BY <1>1, <1>3 DEF TotalPages
  <2>2. q \in Nat /\ q * PerPage <= u /\ u < q * PerPage + PerPage
    BY <2>1, Quotient
  <2> HIDE DEF q
  <2>3. q * PerPage \in Int /\ (q - 1) * PerPage = q * PerPage - PerPage
    BY <2>2, Times
  <2>4. ASSUME page < q - 1 PROVE LastOf(page) < t
    <3>1. page + 1 <= q - 1
      BY <2>2, <2>4
    <3>2. PICK x \in Int, y \in Int : x = page + 1 /\ y = q - 1
      BY <2>2
    <3>3. x * PerPage \in Int /\ y * PerPage \in Int /\ x * PerPage <= y * PerPage
      BY <3>1, <3>2, Times
    <3>4. LastOf(page) = x * PerPage /\ (q - 1) * PerPage = y * PerPage
      BY <3>2 DEF LastOf
    <3> QED
      BY <1>1, <2>2, <2>3, <3>3, <3>4
  <2>5. ASSUME ~ (page < q - 1) PROVE ~ (LastOf(page) < t)
    <3>1. q <= page + 1
      BY <2>2, <2>5
    <3>2. PICK x \in Int : x = page + 1
      OBVIOUS
    <3>a. q \in Int /\ q <= x
      BY <2>2, <3>1, <3>2
    <3>3. x * PerPage \in Int /\ q * PerPage <= x * PerPage
      BY <3>a, Times
    <3>4. LastOf(page) = x * PerPage
      BY <3>2 DEF LastOf
    <3> QED
      BY <1>1, <2>2, <2>3, <3>3, <3>4
  <2> QED
    BY <2>1, <2>2, <2>4, <2>5
<1> QED
  BY <1>2, <1>3

\* A page up to the last one has rows.
LEMMA PageHasRows ==
  ASSUME NEW t \in Nat \ {0}, NEW page \in Nat, page <= (t - 1) \div PerPage
  PROVE  page * PerPage < t
<1>1. t - 1 \in Nat
  OBVIOUS
<1>2. /\ (t - 1) \div PerPage \in Nat
      /\ ((t - 1) \div PerPage) * PerPage <= t - 1
  BY <1>1, Quotient
<1> DEFINE q == (t - 1) \div PerPage
<1> HIDE DEF q
<1>3. page * PerPage \in Int /\ q * PerPage \in Int /\ page * PerPage <= q * PerPage
  BY <1>2, Times DEF q
<1> QED
  BY <1>2, <1>3 DEF q

\* What get_page returns: the rows of the page, by their places.
LEMMA PageRows ==
  ASSUME NEW s, rows[s] \in Seq(Rows), NEW page \in Nat
  PROVE  /\ GetPage(s, page) \in Seq(Rows)
         /\ \A i \in 1..Len(rows[s]) : page * PerPage < i /\ i <= LastOf(page)
              => rows[s][i] \in Range(GetPage(s, page))
         /\ page * PerPage < Len(rows[s]) => Range(GetPage(s, page)) # {}
<1>1. PerPage \in Nat \ {0}
  BY ListsAssumption
<1> DEFINE q == rows[s]
           a == page * PerPage
           b == LastOf(page)
           e == Smaller(b, Len(q))
<1>2. a \in Nat /\ b \in Nat /\ b = a + PerPage
  BY <1>1, Times DEF LastOf
<1>3. GetPage(s, page) = SubSeq(q, a + 1, e)
  BY DEF GetPage, LastOf
<1> HIDE DEF q, a, b
<1>4. q \in Seq(Rows) /\ Len(q) \in Nat
  BY DEF q
<1>5. e \in Nat /\ e <= b /\ e <= Len(q) /\ (e = b \/ e = Len(q))
  BY <1>2, <1>4 DEF Smaller
<1> HIDE DEF e
<1>6. \A i \in a + 1..e : q[i] \in Rows
  BY <1>2, <1>4, <1>5
<1>7. PICK p : p = SubSeq(q, a + 1, e)
  OBVIOUS
<1>8. /\ p \in Seq(Rows) /\ Len(p) = IF a + 1 <= e THEN e - a ELSE 0
      /\ \A i \in 1..e - a : p[i] = q[a + i]
  BY <1>2, <1>4, <1>5, <1>6, <1>7, SubSeqProperties
<1>9. ASSUME NEW i \in 1..Len(q), a < i, i <= b PROVE q[i] \in Range(p)
  <2>1. i - a \in 1..e - a /\ a + (i - a) = i /\ a + 1 <= e
    BY <1>2, <1>4, <1>5, <1>9
  <2>2. i - a \in DOMAIN p /\ p[i - a] = q[i]
    BY <1>2, <1>5, <1>8, <2>1
  <2> QED
    BY <2>2 DEF Range
<1>10. ASSUME a < Len(q) PROVE Range(p) # {}
  <2>1. a + 1 \in 1..Len(q) /\ a < a + 1 /\ a + 1 <= b
    BY <1>1, <1>2, <1>4, <1>10
  <2> QED
    BY <1>9, <2>1
<1>11. GetPage(s, page) = p
  BY <1>3, <1>7
<1> QED
  BY <1>8, <1>9, <1>10, <1>11 DEF q, a, b

-----------------------------------------------------------------------------
(* Lists: types *)

Walk == [left : SUBSET Rows, number : Nat \cup {Null}]

\* A handler that is between two queries.
Busy(c) == c.at \in {"number", "rows"}

\* It waits for a call, and no other does.
LEMMA Busied ==
  ASSUME NEW c \in Handlers
  PROVE  /\ Busy(c) <=> c \in Call
         /\ c \in Call => c # NoCall
         /\ c \in Kept <=> c.at = "store"
<1>1. NoCall.at = "none"
  BY DEF NoCall
<1>2. \A d \in Call : d.at \in {"number", "rows"}
  BY DEF Call
<1>3. \A d \in Kept : d.at = "store"
  BY DEF Kept
<1>4. c \in Call \/ c \in Kept \/ c = NoCall
  BY DEF Handlers
<1>5. CASE c \in Call
  BY <1>1, <1>2, <1>3, <1>5 DEF Busy
<1>6. CASE c \in Kept
  BY <1>1, <1>2, <1>3, <1>6 DEF Busy
<1>7. CASE c = NoCall
  BY <1>1, <1>2, <1>3, <1>7 DEF Busy
<1> QED
  BY <1>4, <1>5, <1>6, <1>7

\* What a message waits for, if it waits.
LEMMA Waits ==
  ASSUME ListsTypeOK, NEW m \in Messages
  PROVE  /\ message[m] \in Shown /\ walk[m] \in Walk /\ call[m] \in Handlers
         /\ call[m].at \in {"number", "rows"} => call[m] \in Call
         /\ call[m].at = "store" => call[m] \in Kept
         /\ call[m] \in Call => /\ call[m] # NoCall /\ Busy(call[m])
                                /\ rows[call[m].from] \in Seq(Rows)
<1>1. call[m] \in Handlers
  BY DEF ListsTypeOK
<1>2. message[m] \in Shown /\ walk[m] \in Walk
  BY DEF ListsTypeOK, Walk
<1>3. call[m] \in Call => rows[call[m].from] \in Seq(Rows)
  BY DEF ListsTypeOK, Call
<1> QED
  BY <1>1, <1>2, <1>3, Busied DEF Busy

\* What a handler begins with.
Asked(kind, of, from, page, total) ==
  [at |-> IF total = Null THEN First(kind) ELSE "rows", op |-> kind, of |-> of, from |-> from,
   page |-> page, total |-> total, rows |-> Null, quiet |-> TRUE]

\* A handler begins with a call of its type.
LEMMA BeginCall ==
  ASSUME ListsTypeOK, NEW m \in Messages, NEW kind \in {"open", "page", "redraw"},
         NEW of \in Subjects \cup {Null}, NEW from \in Subjects, NEW page \in Nat,
         NEW total \in Nat \cup {Null}, Begin(m, kind, of, from, page, total)
  PROVE  /\ Asked(kind, of, from, page, total) \in Call
         /\ call' = [call EXCEPT ![m] = Asked(kind, of, from, page, total)]
         /\ call' \in [Messages -> Handlers]
<1>1. First(kind) \in {"number", "rows"}
  BY DEF First
<1>2. Asked(kind, of, from, page, total) \in Call
  BY <1>1 DEF Asked, Call
<1>3. call' = [call EXCEPT ![m] = Asked(kind, of, from, page, total)]
  BY DEF Begin, Asked
<1> QED
  BY <1>2, <1>3 DEF ListsTypeOK, Handlers

\* Stopping leaves no call.
LEMMA StopCall ==
  ASSUME ListsTypeOK, NEW m \in Messages, Stop(m)
  PROVE  /\ call' = [call EXCEPT ![m] = NoCall]
         /\ call' \in [Messages -> Handlers]
  BY DEF Stop, ListsTypeOK, Handlers

\* What a message is after its list is displayed.
Drawn(c) ==
  [Blank EXCEPT !.at = "list", !.of = c.of, !.page = c.page, !.rows = Range(c.rows),
                !.prev = PrevShown(c), !.next = NextShown(c),
                !.back = IF Forgets(c) THEN "open" ELSE "page"]

\* Its walk.
Wandered(m, c) ==
  IF c.op = "open"
    THEN IF c.quiet THEN [left |-> Range(rows[c.from]) \ Range(c.rows),
                          number |-> Len(rows[c.from])] ELSE NoWalk
  ELSE IF walk[m] = NoWalk \/ Misled(m, c) THEN NoWalk
  ELSE [walk[m] EXCEPT !.left = @ \ Range(c.rows)]

\* And what is still to be kept.
Keeping(c) ==
  [at |-> "store", of |-> c.of, from |-> c.from, total |-> c.total, named |-> c.op # "redraw"]

\* A blank message and no walk have their types.
LEMMA Blanks == Blank \in Shown /\ NoWalk \in Walk /\ NoData \in Data
  BY DEF Blank, Shown, NoWalk, Walk, NoData, Data, NoMapping, NoDetail

\* The rows of a sequence of rows are rows.
LEMMA RangeRows == ASSUME NEW q \in Seq(Rows) PROVE Range(q) \subseteq Rows
  BY DEF Range

\* Displaying a list keeps the types.
LEMMA DisplayTypes ==
  ASSUME ListsTypeOK, NEW m \in Messages, NEW c \in Call, c.rows \in Seq(Rows),
         c.total \in Nat, Display(m, c)
  PROVE  /\ message' = [message EXCEPT ![m] = Drawn(c)] /\ Drawn(c) \in Shown
         /\ walk' = [walk EXCEPT ![m] = Wandered(m, c)]
         /\ message' \in [Messages -> Shown] /\ walk' \in [Messages -> Walk]
         /\ fsm' \in Data /\ call' = [call EXCEPT ![m] = Keeping(c)] /\ ~ Busy(Keeping(c))
         /\ call' \in [Messages -> Handlers]
<1>1. Range(c.rows) \subseteq Rows /\ rows[c.from] \in Seq(Rows)
  BY RangeRows DEF ListsTypeOK, Call
<1>2. Range(rows[c.from]) \subseteq Rows /\ Len(rows[c.from]) \in Nat
  BY <1>1, RangeRows
<1>3. PrevShown(c) \in BOOLEAN /\ NextShown(c) \in BOOLEAN
  BY DEF PrevShown, NextShown
<1>4. c.of \in Subjects \cup {Null} /\ c.from \in Subjects /\ c.page \in Nat
  BY DEF Call
<1>5. Drawn(c) \in Shown
  BY <1>1, <1>3, <1>4 DEF Drawn, Blank, Shown
<1>6. message' = [message EXCEPT ![m] = Drawn(c)]
  BY DEF Display, Drawn
<1>7. Wandered(m, c) \in Walk
  <2>1. walk[m] \in Walk
    BY Waits
  <2>2. [left |-> Range(rows[c.from]) \ Range(c.rows), number |-> Len(rows[c.from])] \in Walk
    BY <1>2 DEF Walk
  <2>3. [walk[m] EXCEPT !.left = @ \ Range(c.rows)] \in Walk
    BY <2>1 DEF Walk
  <2> QED
    BY <2>1, <2>2, <2>3, Blanks DEF Wandered
<1>8. walk' = [walk EXCEPT ![m] = Wandered(m, c)]
  BY DEF Display, Wandered
<1>9. call' = [call EXCEPT ![m] = Keeping(c)] /\ ~ Busy(Keeping(c))
  BY DEF Display, Keeping, Busy
<1>10. Keeping(c) \in Handlers
  BY <1>4 DEF Keeping, Handlers, Kept
<1>11. fsm' \in Data
  BY DEF Display, ListsTypeOK
<1>12. walk' \in [Messages -> Walk]
  BY <1>7, <1>8 DEF ListsTypeOK, Walk
<1> QED
  BY <1>5, <1>6, <1>8, <1>9, <1>10, <1>11, <1>12 DEF ListsTypeOK

\* And so does keeping the total.
LEMMA StoreTypes ==
  ASSUME ListsTypeOK, NEW m \in Messages, Store(m)
  PROVE  fsm' \in Data
<1>1. call[m] \in Kept
  BY Waits DEF Store
<1>2. PICK c \in Kept : c = call[m]
  BY <1>1
<1>3. c.of \in Subjects \cup {Null} /\ c.from \in Subjects /\ c.total \in Nat
  BY DEF Kept
<1>4. fsm \in Data
  BY DEF ListsTypeOK
<1>5. fsm' = IF list # Position
               THEN [fsm EXCEPT !.total = c.total]
               ELSE [fsm EXCEPT !.total = c.total, !.mapping = [of |-> c.of, name |-> c.from],
                                !.name = IF c.named THEN c.from ELSE @]
  BY <1>2 DEF Store
<1> QED
  BY <1>3, <1>4, <1>5 DEF Data

\* So does finding nothing.
LEMMA NothingTypes ==
  ASSUME ListsTypeOK, NEW m \in Messages, Nothing(m)
  PROVE  /\ message' = [message EXCEPT ![m] = Blank] /\ walk' = [walk EXCEPT ![m] = NoWalk]
         /\ call' = [call EXCEPT ![m] = NoCall]
         /\ message' \in [Messages -> Shown] /\ walk' \in [Messages -> Walk]
         /\ call' \in [Messages -> Handlers]
<1>1. message' = [message EXCEPT ![m] = Blank] /\ walk' = [walk EXCEPT ![m] = NoWalk]
  BY DEF Nothing
<1>2. message' \in [Messages -> Shown] /\ walk' \in [Messages -> Walk]
  BY <1>1, Blanks DEF ListsTypeOK, Walk
<1> QED
  BY <1>1, <1>2, StopCall DEF Nothing

\* The page that is left after a deletion is one.
LEMMA ClampedPage ==
  ASSUME NEW c \in Call, NEW t \in Nat \ {0}
  PROVE  /\ Clamped(c, t) \in Nat
         /\ c.op = "redraw" => Clamped(c, t) * PerPage < t
         /\ c.op # "redraw" => Clamped(c, t) = c.page
<1>1. c.page \in Nat /\ t - 1 \in Nat
  BY DEF Call
<1>2. (t - 1) \div PerPage \in Nat
  BY <1>1, Quotient
<1> DEFINE q == (t - 1) \div PerPage
<1> HIDE DEF q
<1>3. Smaller(c.page, q) \in Nat /\ Smaller(c.page, q) <= q
  BY <1>1, <1>2 DEF Smaller, q
<1>4. Smaller(c.page, q) * PerPage < t
  BY <1>3, PageHasRows DEF q
<1> QED
  BY <1>1, <1>3, <1>4 DEF Clamped, q

\* CountRows: it displays the list, finds nothing, or goes on.
LEMMA CountRowsStep ==
  ASSUME ListsTypeOK, NEW m \in Messages, CountRows(m)
  PROVE  LET c == call[m]
             t == Len(rows[c.from])
         IN /\ c \in Call /\ c.at = "number" /\ t \in Nat
            /\ \/ /\ c.rows \in Seq(Rows) /\ [c EXCEPT !.total = t] \in Call
                  /\ Display(m, [c EXCEPT !.total = t])
               \/ c.rows = Null /\ Nothing(m) /\ fsm' \in Data
               \/ /\ c.rows = Null /\ t # 0 /\ fsm' \in Data
                  /\ [c EXCEPT !.at = "rows", !.total = t, !.page = Clamped(c, t)] \in Call
                  /\ call' = [call EXCEPT ![m] = [c EXCEPT !.at = "rows", !.total = t,
                                                           !.page = Clamped(c, t)]]
                  /\ UNCHANGED <<message, walk>>
            /\ UNCHANGED <<list, subjects, rows, opens, changes>>
<1> DEFINE c == call[m]
           t == Len(rows[c.from])
<1>1. c.at = "number" /\ c \in Call /\ rows[c.from] \in Seq(Rows)
  BY Waits DEF CountRows
<1>2. t \in Nat
  BY <1>1
<1>3. UNCHANGED <<list, subjects, rows, opens, changes>>
  BY DEF CountRows, table
<1>4. CASE c.rows # Null
  <2>1. c.rows \in Seq(Rows) /\ [c EXCEPT !.total = t] \in Call
    BY <1>1, <1>2, <1>4 DEF Call
  <2>2. Display(m, [c EXCEPT !.total = t])
    BY <1>4 DEF CountRows
  <2> QED
    BY <1>1, <1>2, <1>3, <2>1, <2>2
<1>5. CASE c.rows = Null /\ t = 0
  <2>1. Nothing(m) /\ fsm' = IF list = Position /\ c.op = "open" THEN NoData ELSE fsm
    BY <1>5 DEF CountRows
  <2>2. fsm' \in Data
    BY <2>1, Blanks DEF ListsTypeOK
  <2> QED
    BY <1>1, <1>2, <1>3, <1>5, <2>1, <2>2
<1>6. CASE c.rows = Null /\ t # 0
  <2>1. /\ call' = [call EXCEPT ![m].at = "rows", ![m].total = t, ![m].page = Clamped(c, t)]
        /\ fsm' = IF list = Position /\ c.op = "open"
                    THEN [fsm EXCEPT !.mapping = [of |-> c.of, name |-> c.from],
                                     !.name = c.from]
                    ELSE fsm
        /\ UNCHANGED <<message, walk>>
    BY <1>6 DEF CountRows
  <2>2. c.of \in Subjects \cup {Null} /\ c.from \in Subjects
    BY <1>1 DEF Call
  <2>3. fsm' \in Data
    <3>1. fsm \in Data
      BY DEF ListsTypeOK
    <3> QED
      BY <2>1, <2>2, <3>1 DEF Data
  <2>4. Clamped(c, t) \in Nat
    BY <1>1, <1>2, <1>6, ClampedPage
  <2>5. [c EXCEPT !.at = "rows", !.total = t, !.page = Clamped(c, t)] \in Call
    BY <1>1, <1>2, <2>4 DEF Call
  <2>6. call' = [call EXCEPT ![m] = [c EXCEPT !.at = "rows", !.total = t,
                                              !.page = Clamped(c, t)]]
    BY <2>1
  <2> QED
    BY <1>1, <1>2, <1>3, <1>6, <2>1, <2>3, <2>5, <2>6
<1> QED
  BY <1>4, <1>5, <1>6

\* FetchRows: likewise.
LEMMA FetchRowsStep ==
  ASSUME ListsTypeOK, NEW m \in Messages, FetchRows(m)
  PROVE  LET c == call[m]
             page == GetPage(c.from, c.page)
         IN /\ c \in Call /\ c.at = "rows" /\ page \in Seq(Rows)
            /\ \/ c.op = "open" /\ Nothing(m) /\ fsm' \in Data
               \/ /\ c.total # Null /\ c.total \in Nat /\ [c EXCEPT !.rows = page] \in Call
                  /\ Display(m, [c EXCEPT !.rows = page])
               \/ /\ c.total = Null
                  /\ [c EXCEPT !.at = "number", !.rows = page] \in Call
                  /\ call' = [call EXCEPT ![m] = [c EXCEPT !.at = "number", !.rows = page]]
                  /\ UNCHANGED <<message, fsm, walk>>
            /\ UNCHANGED <<list, subjects, rows, opens, changes>>
<1> DEFINE c == call[m]
           page == GetPage(c.from, c.page)
<1>1. c.at = "rows" /\ c \in Call /\ rows[c.from] \in Seq(Rows)
  BY Waits DEF FetchRows
<1>2. page \in Seq(Rows)
  <2>1. c.page \in Nat
    BY <1>1 DEF Call
  <2> QED
    BY <1>1, <2>1, PageRows
<1>3. UNCHANGED <<list, subjects, rows, opens, changes>>
  BY DEF FetchRows, table
<1>4. CASE list = PromoList /\ c.op = "open" /\ page = <<>>
  <2>1. Nothing(m) /\ fsm' = NoData
    BY <1>4 DEF FetchRows
  <2> QED
    BY <1>1, <1>2, <1>3, <1>4, <2>1, Blanks
<1>5. CASE ~ (list = PromoList /\ c.op = "open" /\ page = <<>>) /\ c.total # Null
  <2>1. Display(m, [c EXCEPT !.rows = page])
    BY <1>5 DEF FetchRows
  <2>2. c.total \in Nat /\ [c EXCEPT !.rows = page] \in Call
    BY <1>1, <1>2, <1>5 DEF Call
  <2> QED
    BY <1>1, <1>2, <1>3, <1>5, <2>1, <2>2
<1>6. CASE ~ (list = PromoList /\ c.op = "open" /\ page = <<>>) /\ c.total = Null
  <2>1. /\ call' = [call EXCEPT ![m].at = "number", ![m].rows = page]
        /\ UNCHANGED <<message, fsm, walk>>
    BY <1>6 DEF FetchRows
  <2>2. [c EXCEPT !.at = "number", !.rows = page] \in Call
    BY <1>1, <1>2 DEF Call
  <2>3. call' = [call EXCEPT ![m] = [c EXCEPT !.at = "number", !.rows = page]]
    BY <2>1
  <2> QED
    BY <1>1, <1>2, <1>3, <1>6, <2>1, <2>2, <2>3
<1> QED
  BY <1>4, <1>5, <1>6

\* Going to a page.
LEMMA GoToStep ==
  ASSUME ListsTypeOK, NEW m \in Messages, NEW page \in Nat, GoTo(m, page)
  PROVE  \E from \in Subjects, total \in Nat \cup {Null} :
           LET c == Asked("page", message[m].of, from, page, total)
           IN /\ from = Named(message[m].of) /\ c \in Call
              /\ call' = [call EXCEPT ![m] = c] /\ call' \in [Messages -> Handlers]
<1>1. message[m].of \in Subjects \cup {Null}
  BY Waits DEF Shown
<1>2. fsm.total \in Nat \cup {Null} /\ fsm.name \in Subjects \cup {Null}
      /\ fsm.mapping.name \in Subjects \cup {Null}
  BY DEF ListsTypeOK, Data
<1>3. Named(message[m].of) \in Subjects
  BY <1>1, <1>2 DEF GoTo, Named
<1>4. Begin(m, "page", message[m].of, Named(message[m].of), page, fsm.total)
  BY DEF GoTo
<1>5. PICK from \in Subjects, total \in Nat \cup {Null}, of \in Subjects \cup {Null} :
        from = Named(message[m].of) /\ total = fsm.total /\ of = message[m].of
  BY <1>1, <1>2, <1>3
<1>6. Begin(m, "page", of, from, page, total)
  BY <1>4, <1>5
<1> DEFINE c == Asked("page", of, from, page, total)
<1>7. c \in Call
  BY <1>6, BeginCall
<1>8. call' = [call EXCEPT ![m] = c]
  BY <1>6, BeginCall
<1>9. call' \in [Messages -> Handlers]
  BY <1>6, BeginCall
<1> QED
  BY <1>5, <1>7, <1>8, <1>9

-----------------------------------------------------------------------------
(* Lists: what messages, calls and walks know of the rows R of list L. *)

\* A call fits its handler.
CallFits(L, c) ==
  /\ c.op = "open" => c.page = 0
  /\ c.op = "open" \/ L # Position => c.of = c.from
  /\ c.op = "redraw" /\ c.at = "number" => c.rows = Null
  /\ c.op = "redraw" /\ c.at = "rows" => c.total # Null

\* What a call found out is still so if nobody has changed the rows since.
Knows(R, c) ==
  c.quiet =>
    /\ c.op = "open" /\ c.total # Null => c.total = Len(R[c.from])
    /\ c.op = "open" /\ c.rows # Null =>
         \A i \in 1..Len(R[c.from]) : i <= LastOf(0) => R[c.from][i] \in Range(c.rows)
    /\ c.op = "redraw" /\ c.at = "rows" => c.page * PerPage < Len(R[c.from])

\* What a walk w has not seen lies behind the page of its message x, and the
\* message has a button for it.
Walked(R, x, w) ==
  /\ x.of \in Subjects /\ w.number \in 0..Len(R[x.of])
  /\ \A r \in w.left : \E i \in 1..w.number : LastOf(x.page) < i /\ R[x.of][i] = r
  /\ ~ x.next => w.number <= LastOf(x.page)
  /\ x.next => LastOf(x.page) < Len(R[x.of])

\* A page handler c leads a walk at most one page on, and what it has fetched
\* holds the rows that the walk has to see there.
Goes(R, x, c, w) ==
  /\ x.at # "none" /\ c.of = x.of /\ c.page <= x.page + 1
  /\ c.rows # Null /\ c.from = x.of =>
       \A i \in 1..w.number :
         c.page * PerPage < i /\ i <= LastOf(c.page) => R[c.from][i] \in Range(c.rows)

\* All of it.
Fit(R, L, x, c, w) ==
  /\ x.prev => x.page > 0
  /\ L # Position /\ x.at # "none" => x.of \in Subjects
  /\ Busy(c) => CallFits(L, c) /\ Knows(R, c)
  /\ w # NoWalk /\ x.at # "none" => Walked(R, x, w)
  /\ w # NoWalk /\ Busy(c) /\ c.op = "page" => Goes(R, x, c, w)

\* The inductive invariant of the lists.
ListsInv == \A m \in Messages : Fit(rows, list, message[m], call[m], walk[m])

\* Less is known without a walk, ...
LEMMA FitNoWalk ==
  ASSUME NEW R, NEW L, NEW x, NEW c, NEW w, Fit(R, L, x, c, w)
  PROVE  Fit(R, L, x, c, NoWalk)
  BY DEF Fit

\* ... without a query to come, ...
LEMMA FitIdle ==
  ASSUME NEW R, NEW L, NEW x, NEW c, NEW w, NEW d, Fit(R, L, x, c, w), ~ Busy(d)
  PROVE  Fit(R, L, x, d, w)
  BY DEF Fit

\* There is none without a call.
LEMMA NoCallIdle == ~ Busy(NoCall)
  BY DEF Busy, NoCall

\* ... and of a message that shows no list.
LEMMA FitBlank ==
  ASSUME NEW R, NEW L, NEW w
  PROVE  Fit(R, L, Blank, NoCall, w)
  BY NoCallIdle DEF Fit, Blank

\* Another call.
LEMMA FitCall ==
  ASSUME NEW R, NEW L, NEW x, NEW c, NEW w, NEW d, Fit(R, L, x, c, w),
         CallFits(L, d), Knows(R, d), w # NoWalk /\ d.op = "page" => Goes(R, x, d, w)
  PROVE  Fit(R, L, x, d, w)
  BY DEF Fit

\* Rows of s have changed: the calls from s know nothing any more, and the walks end.
LEMMA FitDisturbed ==
  ASSUME NEW R, NEW L, NEW x, NEW c \in Handlers, NEW w, Fit(R, L, x, c, w),
         NEW Q, NEW s, \A t \in Subjects : t # s => Q[t] = R[t]
  PROVE  Fit(Q, L, x, Unquiet(c, s), IF x.of = s THEN NoWalk ELSE w)
<1> DEFINE d == Unquiet(c, s)
           v == IF x.of = s THEN NoWalk ELSE w
<1>1. CASE ~ Busy(c)
  <2>1. ~ Busy(d)
    BY <1>1 DEF Unquiet, Busy
  <2>2. v # NoWalk /\ x.at # "none" => Walked(Q, x, v)
    BY DEF Fit, Walked
  <2> QED
    BY <2>1, <2>2 DEF Fit
<1>2. CASE Busy(c)
  <2>1. c \in Call /\ c.from \in Subjects
    BY <1>2, Busied DEF Call
  <2>2. d = IF c.op # "page" /\ c.from = s THEN [c EXCEPT !.quiet = FALSE] ELSE c
    BY <1>2 DEF Unquiet, Busy
  <2>3. /\ d.op = c.op /\ d.at = c.at /\ d.of = c.of /\ d.from = c.from /\ d.page = c.page
        /\ d.total = c.total /\ d.rows = c.rows
        /\ d.quiet => c.quiet /\ (c.op = "page" \/ c.from # s)
    BY <2>1, <2>2 DEF Call
  <2> HIDE DEF d
  <2>4. CallFits(L, d)
    BY <1>2, <2>3 DEF Fit, CallFits
  <2>5. Knows(Q, d)
    <3> SUFFICES ASSUME d.quiet PROVE Knows(Q, d)
      BY DEF Knows
    <3>1. Knows(R, c) /\ c.quiet /\ (c.op = "page" \/ Q[d.from] = R[d.from])
      BY <1>2, <2>1, <2>3 DEF Fit
    <3> QED
      BY <2>3, <3>1 DEF Knows
  <2>6. v # NoWalk /\ x.at # "none" => Walked(Q, x, v)
    BY DEF Fit, Walked
  <2>7. ASSUME v # NoWalk, d.op = "page" PROVE Goes(Q, x, d, v)
    <3>1. Goes(R, x, c, w) /\ v = w /\ x.of # s
      BY <1>2, <2>3, <2>7 DEF Fit
    <3>2. c.from = x.of => Q[c.from] = R[c.from]
      BY <2>1, <3>1
    <3> QED
      BY <2>3, <3>1, <3>2 DEF Goes
  <2> HIDE DEF v
  <2>8. Fit(Q, L, x, d, v)
    BY <2>4, <2>5, <2>6, <2>7 DEF Fit
  <2> QED
    BY <2>8 DEF d, v
<1> QED
  BY <1>1, <1>2

\* A row has come behind the rows of s.
LEMMA FitGrown ==
  ASSUME NEW R \in [Subjects -> Seq(Rows)], NEW L, NEW x \in Shown,
         NEW c \in Handlers, NEW w \in Walk, Fit(R, L, x, c, w),
         NEW Q, NEW s \in Subjects, \A t \in Subjects : t # s => Q[t] = R[t],
         Len(Q[s]) = Len(R[s]) + 1, \A i \in 1..Len(R[s]) : Q[s][i] = R[s][i]
  PROVE  Fit(Q, L, x, Unquiet(c, s), w)
<1> DEFINE d == Unquiet(c, s)
<1>1. /\ \A t \in Subjects : Len(R[t]) \in Nat /\ Len(Q[t]) \in Nat /\ Len(R[t]) <= Len(Q[t])
      /\ \A t \in Subjects : \A i \in 1..Len(R[t]) : Q[t][i] = R[t][i]
  <2> SUFFICES ASSUME NEW t \in Subjects
               PROVE  /\ Len(R[t]) \in Nat /\ Len(Q[t]) \in Nat /\ Len(R[t]) <= Len(Q[t])
                      /\ \A i \in 1..Len(R[t]) : Q[t][i] = R[t][i]
    OBVIOUS
  <2>1. Len(R[t]) \in Nat
    OBVIOUS
  <2>2. CASE t = s
    BY <2>1, <2>2
  <2>3. CASE t # s
    BY <2>1, <2>3
  <2> QED
    BY <2>2, <2>3
<1>2. w # NoWalk /\ x.at # "none" => Walked(R, x, w) /\ Walked(Q, x, w)
  <2> SUFFICES ASSUME w # NoWalk, x.at # "none" PROVE Walked(R, x, w) /\ Walked(Q, x, w)
    OBVIOUS
  <2>1. Walked(R, x, w)
    BY DEF Fit
  <2>2. LastOf(x.page) \in Nat
    <3>1. x.page \in Nat
      BY DEF Shown
    <3> QED
      BY <3>1, LastNat
  <2>3. x.of \in Subjects /\ w.number \in 0..Len(R[x.of])
    BY <2>1 DEF Walked
  <2>4. w.number \in 0..Len(Q[x.of]) /\ \A i \in 1..w.number : Q[x.of][i] = R[x.of][i]
    BY <1>1, <2>3
  <2>5. x.next => LastOf(x.page) < Len(Q[x.of])
    BY <1>1, <2>1, <2>2, <2>3 DEF Walked
  <2> QED
    BY <2>1, <2>3, <2>4, <2>5 DEF Walked
<1>3. CASE ~ Busy(c)
  <2>1. ~ Busy(d)
    BY <1>3 DEF Unquiet, Busy
  <2> QED
    BY <2>1, <1>2 DEF Fit
<1>4. CASE Busy(c)
  <2>1. c \in Call /\ c.from \in Subjects
    BY <1>4, Busied DEF Call
  <2>2. d = IF c.op # "page" /\ c.from = s THEN [c EXCEPT !.quiet = FALSE] ELSE c
    BY <1>4 DEF Unquiet, Busy
  <2>3. /\ d.op = c.op /\ d.at = c.at /\ d.of = c.of /\ d.from = c.from /\ d.page = c.page
        /\ d.total = c.total /\ d.rows = c.rows
        /\ d.quiet => c.quiet /\ (c.op = "page" \/ c.from # s)
    BY <2>1, <2>2 DEF Call
  <2> HIDE DEF d
  <2>4. CallFits(L, d)
    BY <1>4, <2>3 DEF Fit, CallFits
  <2>5. Knows(Q, d)
    <3> SUFFICES ASSUME d.quiet PROVE Knows(Q, d)
      BY DEF Knows
    <3>1. Knows(R, c) /\ c.quiet /\ (c.op = "page" \/ Q[d.from] = R[d.from])
      BY <1>4, <2>1, <2>3 DEF Fit
    <3> QED
      BY <2>3, <3>1 DEF Knows
  <2>6. ASSUME w # NoWalk, d.op = "page" PROVE Goes(Q, x, d, w)
    <3>1. Goes(R, x, c, w)
      BY <1>4, <2>3, <2>6 DEF Fit
    <3>2. Walked(R, x, w)
      BY <3>1, <2>6, <1>2 DEF Goes
    <3>3. c.from = x.of => \A i \in 1..w.number : Q[c.from][i] = R[c.from][i]
      <4>1. x.of \in Subjects /\ w.number \in 0..Len(R[x.of])
        BY <3>2 DEF Walked
      <4>2. Len(R[x.of]) \in Nat /\ \A i \in 1..Len(R[x.of]) : Q[x.of][i] = R[x.of][i]
        BY <1>1, <4>1
      <4>3. \A i \in 1..w.number : i \in 1..Len(R[x.of])
        BY <4>1, <4>2
      <4> QED
        BY <4>2, <4>3
    <3>4. /\ x.at # "none" /\ d.of = x.of /\ d.page <= x.page + 1
          /\ d.rows # Null /\ d.from = x.of => \A i \in 1..w.number :
               d.page * PerPage < i /\ i <= LastOf(d.page) => R[c.from][i] \in Range(d.rows)
      BY <2>3, <3>1 DEF Goes
    <3>5. d.rows # Null /\ d.from = x.of => \A i \in 1..w.number :
            d.page * PerPage < i /\ i <= LastOf(d.page) => Q[d.from][i] \in Range(d.rows)
      BY <2>3, <3>3, <3>4
    <3> QED
      BY <3>4, <3>5 DEF Goes
  <2>7. Fit(Q, L, x, d, w)
    BY <2>4, <2>5, <2>6, <1>2 DEF Fit
  <2> QED
    BY <2>7 DEF d
<1> QED
  BY <1>3, <1>4

-----------------------------------------------------------------------------
(* Lists: one handler *)

\* A step of the handler of message m, or a button of m: the others only lose walks.
Alone(m) ==
  /\ UNCHANGED <<list, subjects, rows, changes>> /\ opens' \in 0..MaxOpens
  /\ message' \in [Messages -> Shown] /\ call' \in [Messages -> Handlers]
  /\ walk' \in [Messages -> Walk] /\ fsm' \in Data
  /\ \A x \in Messages \ {m} : /\ message'[x] = message[x] /\ call'[x] = call[x]
                               /\ walk'[x] = walk[x] \/ walk'[x] = NoWalk

\* So the invariants are a matter of message m.
LEMMA AloneKeeps ==
  ASSUME ListsTypeOK, ListsInv, NEW m \in Messages, Alone(m),
         Fit(rows, list, message'[m], call'[m], walk'[m])
  PROVE  (ListsTypeOK /\ ListsInv)'
<1>1. ListsTypeOK'
  <2>1. UNCHANGED <<list, subjects, rows, changes>> /\ opens' \in 0..MaxOpens
    BY DEF Alone
  <2>2. /\ message' \in [Messages -> Shown] /\ call' \in [Messages -> Handlers]
        /\ walk' \in [Messages -> Walk] /\ fsm' \in Data
    BY DEF Alone
  <2> QED
    BY <2>1, <2>2 DEF ListsTypeOK, Walk
<1>2. ASSUME NEW x \in Messages PROVE Fit(rows, list, message'[x], call'[x], walk'[x])
  <2>1. CASE x = m
    BY <2>1
  <2>2. CASE x # m
    <3>1. Fit(rows, list, message[x], call[x], walk[x])
      BY DEF ListsInv
    <3>2. /\ message'[x] = message[x] /\ call'[x] = call[x]
          /\ walk'[x] = walk[x] \/ walk'[x] = NoWalk
      BY <2>2 DEF Alone
    <3> QED
      BY <3>1, <3>2, FitNoWalk
  <2> QED
    BY <2>1, <2>2
<1>3. rows' = rows /\ list' = list
  BY DEF Alone
<1>4. \A x \in Messages : Fit(rows', list', message'[x], call'[x], walk'[x])
  BY <1>2, <1>3
<1>5. ListsInv'
  BY <1>4 DEF ListsInv, Fit
<1> QED
  BY <1>1, <1>5

\* A page that its handler displays: what the walk of the message has not seen yet is
\* behind it.
LEMMA FitDisplay ==
  ASSUME ListsTypeOK, NEW m \in Messages, NEW c \in Call, c.rows \in Seq(Rows),
         c.total \in Nat, Fit(rows, list, message[m], c, walk[m]), ~ Busy(Keeping(c))
  PROVE  Fit(rows, list, Drawn(c), Keeping(c), Wandered(m, c))
<1> DEFINE x == message[m]
           w == walk[m]
           y == Drawn(c)
           v == Wandered(m, c)
<1>1. /\ c.from \in Subjects /\ c.page \in Nat /\ c.of \in Subjects \cup {Null}
      /\ c.op \in {"open", "page", "redraw"} /\ c.quiet \in BOOLEAN /\ c # NoCall
      /\ rows[c.from] \in Seq(Rows) /\ Len(rows[c.from]) \in Nat
  BY Waits DEF Call, NoCall, ListsTypeOK
<1>2. c.rows # Null /\ c.total # Null
  BY ListsAssumption
<1>0. Busy(c)
  BY Busied DEF Handlers
<1>3. CallFits(list, c) /\ Knows(rows, c)
  BY <1>0 DEF Fit
<1>4. /\ y.at = "list" /\ y.of = c.of /\ y.page = c.page
      /\ y.prev = PrevShown(c) /\ y.next = NextShown(c)
  BY DEF Drawn, Blank
<1>5. y.prev => y.page > 0
  BY <1>4 DEF PrevShown
<1>6. list # Position => y.of \in Subjects
  BY <1>1, <1>3, <1>4 DEF CallFits
<1>7. y.next <=> LastOf(c.page) < c.total
  <2>1. NextShown(c) <=> LastOf(c.page) < c.total
    BY <1>1, NextIsShown DEF NextShown
  <2> QED
    BY <1>4, <2>1
<1>8. LastOf(c.page) \in Nat
  BY <1>1, LastNat
<1>9. ASSUME v # NoWalk PROVE Walked(rows, y, v)
  <2>1. CASE c.op = "open"
    <3>1. c.quiet /\ v.left = Range(rows[c.from]) \ Range(c.rows)
          /\ v.number = Len(rows[c.from])
      BY <1>9, <2>1 DEF Wandered
    <3>2. c.page = 0 /\ c.of = c.from /\ c.total = Len(rows[c.from])
          /\ \A i \in 1..Len(rows[c.from]) :
               i <= LastOf(0) => rows[c.from][i] \in Range(c.rows)
      BY <1>2, <1>3, <2>1, <3>1 DEF CallFits, Knows
    <3>3. \A r \in v.left : \E i \in 1..v.number : LastOf(c.page) < i /\ rows[c.of][i] = r
      <4> SUFFICES ASSUME NEW r \in v.left
                   PROVE  \E i \in 1..v.number : LastOf(c.page) < i /\ rows[c.of][i] = r
        OBVIOUS
      <4>1. PICK i \in DOMAIN rows[c.from] : rows[c.from][i] = r
        BY <3>1 DEF Range
      <4>2. i \in 1..Len(rows[c.from])
        BY <1>1, <4>1
      <4>3. ~ (i <= LastOf(0))
        BY <3>1, <3>2, <4>1, <4>2
      <4> QED
        BY <1>8, <3>1, <3>2, <4>1, <4>2, <4>3
    <3> QED
      BY <1>1, <1>4, <1>7, <1>8, <3>1, <3>2, <3>3 DEF Walked
  <2>2. CASE c.op # "open"
    <3>1. w # NoWalk /\ ~ Misled(m, c) /\ v = [w EXCEPT !.left = @ \ Range(c.rows)]
      BY <1>9, <2>2 DEF Wandered
    <3>2. c.op = "page" /\ c.from = x.of /\ c.total \in w.number..Len(rows[c.from])
      BY <1>1, <2>2, <3>1 DEF Misled
    <3>3. Goes(rows, x, c, w)
      BY <1>0, <3>1, <3>2 DEF Fit
    <3>4. Walked(rows, x, w)
      BY <3>1, <3>3 DEF Fit, Goes
    <3>5. w \in Walk
      BY Waits
    <3>6. v.left = w.left \ Range(c.rows) /\ v.number = w.number
      BY <3>1, <3>5 DEF Walk
    <3>7. x.of = c.of /\ c.page <= x.page + 1 /\ x.page \in Nat
      BY <3>3, Waits DEF Goes, Shown
    <3>8. w.number \in 0..Len(rows[c.of]) /\ w.number <= c.total
          /\ c.total <= Len(rows[c.of])
      BY <1>1, <3>2, <3>4, <3>7 DEF Walked
    <3>9. c.page * PerPage \in Nat /\ c.page * PerPage <= LastOf(x.page)
          /\ LastOf(x.page) \in Nat
      <4>1. PICK z \in Nat : z = x.page + 1
        BY <3>7
      <4>2. c.page <= z /\ z * PerPage = LastOf(x.page)
        BY <3>7, <4>1 DEF LastOf
      <4>3. /\ c.page * PerPage \in Nat /\ z * PerPage \in Int
            /\ c.page * PerPage <= z * PerPage
        <5>1. PICK k \in Nat : k = c.page
          BY <1>1
        <5>2. k <= z
          BY <4>2, <5>1
        <5>3. k \in Int /\ z \in Int
          OBVIOUS
        <5>4. k * PerPage <= z * PerPage
          BY <5>2, <5>3, Times
        <5>5. k * PerPage \in Nat /\ z * PerPage \in Int
          BY <5>3, Times
        <5> QED
          BY <5>1, <5>4, <5>5
      <4> QED
        BY <3>7, <4>2, <4>3, LastNat
    <3>10. \A r \in v.left : \E i \in 1..v.number : LastOf(c.page) < i /\ rows[c.of][i] = r
      <4> SUFFICES ASSUME NEW r \in v.left
                   PROVE  \E i \in 1..v.number : LastOf(c.page) < i /\ rows[c.of][i] = r
        OBVIOUS
      <4>1. PICK i \in 1..w.number : LastOf(x.page) < i /\ rows[c.of][i] = r
        BY <3>4, <3>6, <3>7 DEF Walked
      <4>2. i \in Nat /\ c.page * PerPage < i
        BY <3>8, <3>9, <4>1
      <4>3. ~ (i <= LastOf(c.page))
        BY <1>2, <3>2, <3>3, <3>6, <3>7, <4>1, <4>2 DEF Goes
      <4> QED
        BY <1>8, <3>6, <4>1, <4>2, <4>3
    <3>11. y.of \in Subjects
      BY <1>1, <1>4, <3>2, <3>7
    <3>12. /\ ~ y.next => v.number <= LastOf(y.page)
           /\ y.next => LastOf(y.page) < Len(rows[y.of])
      BY <1>1, <1>4, <1>7, <1>8, <3>6, <3>8
    <3>13. v.number \in 0..Len(rows[y.of])
      BY <1>4, <3>6, <3>8
    <3> QED
      BY <1>4, <3>10, <3>11, <3>12, <3>13 DEF Walked
  <2> QED
    BY <2>1, <2>2
<1> QED
  BY <1>5, <1>6, <1>9 DEF Fit

\* Counting the rows.
LEMMA CountRowsFit ==
  ASSUME ListsTypeOK, ListsInv, NEW m \in Messages, CountRows(m)
  PROVE  (ListsTypeOK /\ ListsInv)'
<1> DEFINE c == call[m]
           t == Len(rows[c.from])
           x == message[m]
           w == walk[m]
<1>1. /\ c \in Call /\ c.at = "number" /\ t \in Nat /\ Busy(c)
      /\ UNCHANGED <<list, subjects, rows, opens, changes>>
  BY CountRowsStep, Waits
<1>2. Fit(rows, list, x, c, w)
  BY DEF ListsInv
<1>3. CallFits(list, c) /\ Knows(rows, c)
  BY <1>1, <1>2 DEF Fit
<1>4. opens' \in 0..MaxOpens /\ message \in [Messages -> Shown] /\ walk \in [Messages -> Walk]
      /\ call \in [Messages -> Handlers]
  BY <1>1 DEF ListsTypeOK, Walk
<1>5. CASE c.rows \in Seq(Rows) /\ [c EXCEPT !.total = t] \in Call
           /\ Display(m, [c EXCEPT !.total = t])
  <2> DEFINE d == [c EXCEPT !.total = t]
  <2>1. /\ d.op = c.op /\ d.at = c.at /\ d.of = c.of /\ d.from = c.from /\ d.page = c.page
        /\ d.total = t /\ d.rows = c.rows /\ d.quiet = c.quiet
    BY <1>1 DEF Call
  <2>2. d \in Call /\ Display(m, d)
    BY <1>5
  <2> HIDE DEF d
  <2>3. c.rows # Null
    BY <1>5, ListsAssumption
  <2>4. CallFits(list, d)
    BY <1>1, <1>3, <2>1, <2>3 DEF CallFits
  <2>5. Knows(rows, d)
    BY <1>1, <1>3, <2>1 DEF Knows
  <2>6. w # NoWalk /\ d.op = "page" => Goes(rows, x, d, w)
    BY <1>1, <1>2, <2>1 DEF Fit, Goes
  <2>7. Fit(rows, list, x, d, w)
    BY <1>2, <2>4, <2>5, <2>6, FitCall
  <2>9. /\ message' = [message EXCEPT ![m] = Drawn(d)]
        /\ walk' = [walk EXCEPT ![m] = Wandered(m, d)]
        /\ message' \in [Messages -> Shown] /\ walk' \in [Messages -> Walk]
        /\ fsm' \in Data /\ call' = [call EXCEPT ![m] = Keeping(d)] /\ ~ Busy(Keeping(d))
        /\ call' \in [Messages -> Handlers]
    BY <1>1, <1>5, <2>1, <2>2, DisplayTypes
  <2>8. Fit(rows, list, Drawn(d), Keeping(d), Wandered(m, d))
    BY <1>1, <1>5, <2>1, <2>2, <2>7, <2>9, FitDisplay
  <2>10. \A y \in Messages \ {m} : walk'[y] = walk[y] \/ walk'[y] = NoWalk
    BY <2>9 DEF Wandered
  <2>11. Alone(m)
    BY <1>1, <1>4, <2>9, <2>10 DEF Alone
  <2>12. Fit(rows, list, message'[m], call'[m], walk'[m])
    BY <1>4, <2>8, <2>9
  <2> QED
    BY <2>11, <2>12, AloneKeeps
<1>6. CASE c.rows = Null /\ Nothing(m) /\ fsm' \in Data
  <2>1. /\ message' = [message EXCEPT ![m] = Blank] /\ walk' = [walk EXCEPT ![m] = NoWalk]
        /\ call' = [call EXCEPT ![m] = NoCall]
        /\ message' \in [Messages -> Shown] /\ walk' \in [Messages -> Walk]
        /\ call' \in [Messages -> Handlers]
    BY <1>6, NothingTypes
  <2>2. Alone(m)
    BY <1>1, <1>4, <1>6, <2>1 DEF Alone
  <2>3. Fit(rows, list, message'[m], call'[m], walk'[m])
    BY <1>4, <2>1, FitBlank
  <2> QED
    BY <2>2, <2>3, AloneKeeps
<1>7. CASE /\ c.rows = Null /\ t # 0 /\ fsm' \in Data
           /\ [c EXCEPT !.at = "rows", !.total = t, !.page = Clamped(c, t)] \in Call
           /\ call' = [call EXCEPT ![m] = [c EXCEPT !.at = "rows", !.total = t,
                                                    !.page = Clamped(c, t)]]
           /\ UNCHANGED <<message, walk>>
  <2> DEFINE d == [c EXCEPT !.at = "rows", !.total = t, !.page = Clamped(c, t)]
  <2>1. /\ d.op = c.op /\ d.at = "rows" /\ d.of = c.of /\ d.from = c.from
        /\ d.page = Clamped(c, t) /\ d.total = t /\ d.rows = Null /\ d.quiet = c.quiet
    BY <1>1, <1>7 DEF Call
  <2>2. d \in Call /\ call' = [call EXCEPT ![m] = d] /\ UNCHANGED <<message, walk>>
    BY <1>7
  <2> HIDE DEF d
  <2>3. /\ c.op = "redraw" => Clamped(c, t) * PerPage < t
        /\ c.op # "redraw" => d.page = c.page
    BY <1>1, <1>7, <2>1, ClampedPage
  <2>4. t # Null
    BY <1>1, ListsAssumption
  <2>5. CallFits(list, d)
    BY <1>3, <2>1, <2>3, <2>4 DEF CallFits
  <2>6. Knows(rows, d)
    BY <2>1, <2>3 DEF Knows
  <2>7. w # NoWalk /\ d.op = "page" => Goes(rows, x, d, w)
    BY <1>1, <1>2, <2>1, <2>3 DEF Fit, Goes
  <2>8. Fit(rows, list, x, d, w)
    BY <1>2, <2>5, <2>6, <2>7, FitCall
  <2>9. Alone(m)
    BY <1>1, <1>4, <1>7, <2>2 DEF Alone, Handlers
  <2>10. Fit(rows, list, message'[m], call'[m], walk'[m])
    BY <1>4, <2>2, <2>8
  <2> QED
    BY <2>9, <2>10, AloneKeeps
<1> QED
  BY <1>5, <1>6, <1>7, CountRowsStep

\* Fetching them.
LEMMA FetchRowsFit ==
  ASSUME ListsTypeOK, ListsInv, NEW m \in Messages, FetchRows(m)
  PROVE  (ListsTypeOK /\ ListsInv)'
<1> DEFINE c == call[m]
           q == GetPage(c.from, c.page)
           x == message[m]
           w == walk[m]
<1>1. /\ c \in Call /\ c.at = "rows" /\ q \in Seq(Rows) /\ Busy(c)
      /\ UNCHANGED <<list, subjects, rows, opens, changes>>
  BY FetchRowsStep, Waits
<1>2. Fit(rows, list, x, c, w)
  BY DEF ListsInv
<1>3. CallFits(list, c) /\ Knows(rows, c)
  BY <1>1, <1>2 DEF Fit
<1>4. opens' \in 0..MaxOpens /\ message \in [Messages -> Shown] /\ walk \in [Messages -> Walk]
      /\ call \in [Messages -> Handlers]
  BY <1>1 DEF ListsTypeOK, Walk
<1>5. /\ rows[c.from] \in Seq(Rows) /\ c.page \in Nat
      /\ \A i \in 1..Len(rows[c.from]) : c.page * PerPage < i /\ i <= LastOf(c.page)
           => rows[c.from][i] \in Range(q)
  <2>1. rows[c.from] \in Seq(Rows) /\ c.page \in Nat
    BY <1>1, Waits DEF Call
  <2> QED
    BY <2>1, PageRows
\* Whatever else d says, with the rows of the page it fits.
<1>6. ASSUME NEW d, d.op = c.op, d.of = c.of, d.from = c.from, d.page = c.page,
             d.total = c.total, d.rows = q, d.quiet = c.quiet, d.at = "rows" \/ d.total = Null,
             d.at \in {"rows", "number"}
      PROVE  Fit(rows, list, x, d, w)
  <2>1. CallFits(list, d)
    BY <1>1, <1>3, <1>6 DEF CallFits
  <2>2. ASSUME c.op = "open"
        PROVE  \A i \in 1..Len(rows[c.from]) : i <= LastOf(0) => rows[c.from][i] \in Range(q)
    <3>1. c.page = 0
      BY <1>3, <2>2 DEF CallFits
    <3>2. c.page * PerPage = 0
      BY <3>1, ListsAssumption
    <3>3. Len(rows[c.from]) \in Nat
      BY <1>5
    <3> QED
      BY <1>5, <3>1, <3>2, <3>3
  <2>3. Knows(rows, d)
    BY <1>1, <1>3, <1>6, <2>2 DEF Knows, CallFits
  <2>4. ASSUME w # NoWalk, c.op = "page" PROVE Goes(rows, x, d, w)
    <3>1. Goes(rows, x, c, w)
      BY <1>1, <1>2, <2>4 DEF Fit
    <3>2. Walked(rows, x, w)
      BY <1>2, <2>4, <3>1 DEF Fit, Goes
    <3>3. w.number \in 0..Len(rows[x.of]) /\ x.of \in Subjects
      BY <3>2 DEF Walked
    <3>4. Len(rows[x.of]) \in Nat
      BY <3>3 DEF ListsTypeOK
    <3>5. c.from = x.of => \A i \in 1..w.number : i \in 1..Len(rows[c.from])
      BY <3>3, <3>4
    <3> QED
      BY <1>6, <1>5, <3>1, <3>5 DEF Goes
  <2> QED
    BY <1>2, <1>6, <2>1, <2>3, <2>4, FitCall
<1>7. CASE c.op = "open" /\ Nothing(m) /\ fsm' \in Data
  <2>1. /\ message' = [message EXCEPT ![m] = Blank] /\ walk' = [walk EXCEPT ![m] = NoWalk]
        /\ call' = [call EXCEPT ![m] = NoCall]
        /\ message' \in [Messages -> Shown] /\ walk' \in [Messages -> Walk]
        /\ call' \in [Messages -> Handlers]
    BY <1>7, NothingTypes
  <2>2. Alone(m)
    BY <1>1, <1>4, <1>7, <2>1 DEF Alone
  <2>3. Fit(rows, list, message'[m], call'[m], walk'[m])
    BY <1>4, <2>1, FitBlank
  <2> QED
    BY <2>2, <2>3, AloneKeeps
<1>8. CASE /\ c.total # Null /\ c.total \in Nat /\ [c EXCEPT !.rows = q] \in Call
           /\ Display(m, [c EXCEPT !.rows = q])
  <2> DEFINE d == [c EXCEPT !.rows = q]
  <2>1. /\ d.op = c.op /\ d.at = "rows" /\ d.of = c.of /\ d.from = c.from /\ d.page = c.page
        /\ d.total = c.total /\ d.rows = q /\ d.quiet = c.quiet
    BY <1>1 DEF Call
  <2>2. d \in Call /\ Display(m, d) /\ d.total \in Nat
    BY <1>8, <2>1
  <2> HIDE DEF d
  <2>3. Fit(rows, list, x, d, w)
    BY <2>1, <1>6
  <2>5. /\ message' = [message EXCEPT ![m] = Drawn(d)]
        /\ walk' = [walk EXCEPT ![m] = Wandered(m, d)]
        /\ message' \in [Messages -> Shown] /\ walk' \in [Messages -> Walk]
        /\ fsm' \in Data /\ call' = [call EXCEPT ![m] = Keeping(d)] /\ ~ Busy(Keeping(d))
        /\ call' \in [Messages -> Handlers]
    BY <1>1, <2>1, <2>2, DisplayTypes
  <2>4. Fit(rows, list, Drawn(d), Keeping(d), Wandered(m, d))
    BY <1>1, <2>1, <2>2, <2>3, <2>5, FitDisplay
  <2>6. \A y \in Messages \ {m} : walk'[y] = walk[y] \/ walk'[y] = NoWalk
    BY <2>5 DEF Wandered
  <2>7. Alone(m)
    BY <1>1, <1>4, <2>5, <2>6 DEF Alone
  <2>8. Fit(rows, list, message'[m], call'[m], walk'[m])
    BY <1>4, <2>4, <2>5
  <2> QED
    BY <2>7, <2>8, AloneKeeps
<1>9. CASE /\ c.total = Null
           /\ [c EXCEPT !.at = "number", !.rows = q] \in Call
           /\ call' = [call EXCEPT ![m] = [c EXCEPT !.at = "number", !.rows = q]]
           /\ UNCHANGED <<message, fsm, walk>>
  <2> DEFINE d == [c EXCEPT !.at = "number", !.rows = q]
  <2>1. /\ d.op = c.op /\ d.at = "number" /\ d.of = c.of /\ d.from = c.from
        /\ d.page = c.page /\ d.total = Null /\ d.total = c.total /\ d.rows = q
        /\ d.quiet = c.quiet
    BY <1>1, <1>9 DEF Call
  <2>2. d \in Call /\ call' = [call EXCEPT ![m] = d] /\ UNCHANGED <<message, fsm, walk>>
    BY <1>9
  <2> HIDE DEF d
  <2>3. Fit(rows, list, x, d, w)
    BY <2>1, <1>6
  <2>4. Alone(m)
    BY <1>1, <1>4, <2>2 DEF Alone, ListsTypeOK, Handlers
  <2>5. Fit(rows, list, message'[m], call'[m], walk'[m])
    BY <1>4, <2>2, <2>3
  <2> QED
    BY <2>4, <2>5, AloneKeeps
<1> QED
  BY <1>7, <1>8, <1>9, FetchRowsStep

-----------------------------------------------------------------------------
(* Lists: buttons *)

\* A new call: nothing is known yet.
LEMMA FitAsked ==
  ASSUME NEW R, NEW L, NEW x, NEW w, Fit(R, L, x, NoCall, w), NEW d,
         d.rows = Null, d.total = Null \/ d.op = "page", d.op \in {"open", "page"},
         d.op = "open" => d.page = 0, d.op = "open" \/ L # Position => d.of = d.from,
         d.op = "page" => x.at # "none" /\ d.of = x.of /\ d.page <= x.page + 1
  PROVE  Fit(R, L, x, d, w)
<1>1. CallFits(L, d)
  BY DEF CallFits
<1>2. Knows(R, d)
  BY DEF Knows
<1>3. d.op = "page" => Goes(R, x, d, w)
  BY DEF Goes
<1> QED
  BY <1>1, <1>2, <1>3, FitCall

\* A message that begins a call.
LEMMA Starts ==
  ASSUME ListsTypeOK, ListsInv, NEW m \in Messages, call[m] = NoCall, NEW d \in Call,
         call' = [call EXCEPT ![m] = d], opens' \in 0..MaxOpens,
         UNCHANGED <<list, subjects, rows, message, fsm, walk, changes>>,
         d.rows = Null, d.total = Null \/ d.op = "page", d.op \in {"open", "page"},
         d.op = "open" => d.page = 0, d.op = "open" \/ list # Position => d.of = d.from,
         d.op = "page" => /\ message[m].at # "none" /\ d.of = message[m].of
                          /\ d.page <= message[m].page + 1
  PROVE  (ListsTypeOK /\ ListsInv)'
<1>1. Fit(rows, list, message[m], NoCall, walk[m])
  BY DEF ListsInv
<1>2. Fit(rows, list, message[m], d, walk[m])
  BY <1>1, FitAsked
<1>3. Alone(m)
  BY DEF Alone, ListsTypeOK, Walk, Handlers
<1>4. Fit(rows, list, message'[m], call'[m], walk'[m])
  BY <1>2 DEF ListsTypeOK
<1> QED
  BY <1>3, <1>4, AloneKeeps

\* Opening a list, turning a page, and going back.
LEMMA OpenFit ==
  ASSUME ListsTypeOK, ListsInv, NEW m \in Messages, Open(m)
  PROVE  (ListsTypeOK /\ ListsInv)'
<1>1. PICK s \in subjects : Begin(m, "open", s, s, 0, Null)
  BY DEF Open
<1>2. /\ call[m] = NoCall /\ opens' \in 0..MaxOpens
      /\ UNCHANGED <<list, subjects, rows, message, fsm, walk, changes>>
  BY ListsAssumption DEF Open, table, ListsTypeOK
<1>3. s \in Subjects
  BY DEF ListsTypeOK
<1>4. PICK of \in Subjects \cup {Null}, from \in Subjects, page \in Nat,
           total \in Nat \cup {Null} : of = s /\ from = s /\ page = 0 /\ total = Null
  BY <1>3
<1>5. Begin(m, "open", of, from, page, total)
  BY <1>1, <1>4
<1> DEFINE d == Asked("open", of, from, page, total)
<1>6. d \in Call
  BY <1>5, BeginCall
<1>7. call' = [call EXCEPT ![m] = d]
  BY <1>5, BeginCall
<1>8. d.op = "open" /\ d.rows = Null /\ d.total = Null /\ d.page = 0 /\ d.of = d.from
  BY <1>4 DEF Asked
<1> HIDE DEF d
<1> QED
  BY <1>2, <1>6, <1>7, <1>8, Starts

\* Going to a page at most one behind.
LEMMA GoToFit ==
  ASSUME ListsTypeOK, ListsInv, NEW m \in Messages, call[m] = NoCall,
         NEW page \in Nat, page <= message[m].page + 1, GoTo(m, page),
         message[m].at # "none",
         UNCHANGED <<list, subjects, rows, message, fsm, walk, opens, changes>>
  PROVE  (ListsTypeOK /\ ListsInv)'
<1>1. PICK from \in Subjects, total \in Nat \cup {Null} :
         LET c == Asked("page", message[m].of, from, page, total)
         IN /\ from = Named(message[m].of) /\ c \in Call
            /\ call' = [call EXCEPT ![m] = c] /\ call' \in [Messages -> Handlers]
  BY GoToStep
<1> DEFINE d == Asked("page", message[m].of, from, page, total)
<1>2. d \in Call /\ call' = [call EXCEPT ![m] = d]
  BY <1>1
<1>3. /\ d.op = "page" /\ d.rows = Null /\ d.page = page /\ d.of = message[m].of
      /\ d.from = Named(message[m].of)
  BY <1>1 DEF Asked
<1>4. list # Position => d.of = d.from
  BY <1>3 DEF Named
<1>5. opens' \in 0..MaxOpens
  BY DEF ListsTypeOK
<1> HIDE DEF d
<1> QED
  BY <1>2, <1>3, <1>4, <1>5, Starts

\* Turning a page: a button to the page before is on no first page.
LEMMA TurnFit ==
  ASSUME ListsTypeOK, ListsInv, NEW m \in Messages, Turn(m)
  PROVE  (ListsTypeOK /\ ListsInv)'
<1>1. /\ call[m] = NoCall /\ message[m].at = "list"
      /\ UNCHANGED <<list, subjects, rows, message, fsm, walk, opens, changes>>
  BY DEF Turn, table
<1>2. message[m].page \in Nat
  BY Waits DEF Shown
<1>3. CASE message[m].prev /\ GoTo(m, message[m].page - 1)
  <2>1. message[m].page > 0
    BY <1>3 DEF ListsInv, Fit
  <2>2. PICK page \in Nat : page = message[m].page - 1
    BY <1>2, <2>1
  <2>3. page <= message[m].page + 1 /\ GoTo(m, page)
    BY <1>2, <1>3, <2>2
  <2> QED
    BY <1>1, <2>3, GoToFit
<1>4. CASE message[m].next /\ GoTo(m, message[m].page + 1)
  <2>1. PICK page \in Nat : page = message[m].page + 1
    BY <1>2
  <2>2. page <= message[m].page + 1 /\ GoTo(m, page)
    BY <1>2, <1>4, <2>1
  <2> QED
    BY <1>1, <2>2, GoToFit
<1> QED
  BY <1>3, <1>4 DEF Turn

\* Back to the page or to the beginning.
LEMMA BackFit ==
  ASSUME ListsTypeOK, ListsInv, NEW m \in Messages, Back(m)
  PROVE  (ListsTypeOK /\ ListsInv)'
<1>1. /\ call[m] = NoCall /\ message[m].at = "detail"
      /\ UNCHANGED <<list, subjects, rows, message, fsm, walk, opens, changes>>
  BY DEF Back, table
<1>2. PICK page \in Nat : page = message[m].page
  BY Waits DEF Shown
<1>3. CASE list = Position \/ message[m].back = "page"
  <2>1. GoTo(m, page) /\ page <= message[m].page + 1
    BY <1>2, <1>3 DEF Back
  <2> QED
    BY <1>1, <2>1, GoToFit
<1>4. CASE ~ (list = Position \/ message[m].back = "page")
  <2>1. Begin(m, "open", message[m].of, message[m].of, 0, Null)
    BY <1>4 DEF Back
  <2>2. message[m].of \in Subjects
    BY <1>1, <1>4 DEF ListsInv, Fit
  <2>3. PICK of \in Subjects \cup {Null}, from \in Subjects, first \in Nat,
             total \in Nat \cup {Null} :
          of = message[m].of /\ from = message[m].of /\ first = 0 /\ total = Null
    BY <2>2
  <2>4. Begin(m, "open", of, from, first, total)
    BY <2>1, <2>3
  <2> DEFINE d == Asked("open", of, from, first, total)
  <2>5. d \in Call
    BY <2>4, BeginCall
  <2>6. call' = [call EXCEPT ![m] = d]
    BY <2>4, BeginCall
  <2>7. d.op = "open" /\ d.rows = Null /\ d.total = Null /\ d.page = 0 /\ d.of = d.from
    BY <2>3 DEF Asked
  <2>8. opens' \in 0..MaxOpens
    BY <1>1 DEF ListsTypeOK
  <2> HIDE DEF d
  <2> QED
    BY <1>1, <2>5, <2>7, <2>8, <2>6, Starts
<1> QED
  BY <1>3, <1>4

\* Showing a row: the message keeps its page and its buttons.
LEMMA ViewFit ==
  ASSUME ListsTypeOK, ListsInv, NEW m \in Messages, View(m)
  PROVE  (ListsTypeOK /\ ListsInv)'
<1>1. PICK r \in message[m].rows :
       /\ message' = [message EXCEPT ![m].at = "detail", ![m].rows = {},
                                     ![m].row = IF list = Position THEN r ELSE Null]
       /\ \/ list.row = "shown" /\ UNCHANGED fsm
          \/ list.row = "clears" /\ fsm' = NoData
          \/ /\ list.row = "stored"
             /\ \E s \in Subjects :
                  /\ r \in Range(rows[s])
                  /\ fsm' = [fsm EXCEPT !.detail = [of |-> message[m].of, name |-> s,
                                                    page |-> message[m].page]]
  BY DEF View
<1>2. /\ call[m] = NoCall /\ message[m].at = "list"
      /\ UNCHANGED <<list, subjects, rows, call, walk, opens, changes>>
  BY DEF View, table
<1>3. message[m] \in Shown /\ r \in Rows
  BY Waits DEF Shown
<1> DEFINE k == IF list = Position THEN r ELSE Null
           y == [message[m] EXCEPT !.at = "detail", !.rows = {}, !.row = k]
<1>4. k \in Rows \cup {Null}
  BY <1>3
<1> HIDE DEF k
<1>5. y \in Shown /\ y.at = "detail" /\ y.of = message[m].of /\ y.page = message[m].page
      /\ y.prev = message[m].prev /\ y.next = message[m].next
  BY <1>3, <1>4 DEF Shown
<1>6. message' = [message EXCEPT ![m] = y]
  BY <1>1 DEF k
<1> HIDE DEF y
<1>7. fsm' \in Data
  <2>1. fsm \in Data /\ NoData \in Data
    BY Blanks DEF ListsTypeOK
  <2>2. CASE UNCHANGED fsm \/ fsm' = NoData
    BY <2>1, <2>2
  <2>3. ASSUME NEW s \in Subjects,
               fsm' = [fsm EXCEPT !.detail = [of |-> message[m].of, name |-> s,
                                              page |-> message[m].page]]
        PROVE  fsm' \in Data
    <3>1. [of |-> message[m].of, name |-> s, page |-> message[m].page]
            \in [of : Subjects \cup {Null}, name : Subjects, page : Nat]
      BY <1>3 DEF Shown
    <3> QED
      BY <2>1, <2>3, <3>1 DEF Data
  <2> QED
    BY <1>1, <2>2, <2>3
<1>8. Fit(rows, list, y, NoCall, walk[m])
  <2>1. Fit(rows, list, message[m], NoCall, walk[m])
    BY <1>2 DEF ListsInv
  <2> QED
    BY <1>2, <1>5, <2>1, NoCallIdle DEF Fit, Walked
<1>9. Alone(m)
  BY <1>2, <1>5, <1>6, <1>7 DEF Alone, ListsTypeOK, Walk
<1>10. Fit(rows, list, message'[m], call'[m], walk'[m])
  BY <1>2, <1>6, <1>8 DEF ListsTypeOK
<1> QED
  BY <1>9, <1>10, AloneKeeps

\* A handler that keeps its total.
LEMMA StoreFit ==
  ASSUME ListsTypeOK, ListsInv, NEW m \in Messages, Store(m)
  PROVE  (ListsTypeOK /\ ListsInv)'
<1>1. UNCHANGED <<list, subjects, rows, message, walk, opens, changes>> /\ Stop(m)
  BY DEF Store, table
<1>2. /\ call' = [call EXCEPT ![m] = NoCall]
      /\ call' \in [Messages -> Handlers]
  BY <1>1, StopCall
<1>3. fsm' \in Data
  BY StoreTypes
<1>4. Alone(m)
  BY <1>1, <1>2, <1>3 DEF Alone, ListsTypeOK, Walk
<1>5. Fit(rows, list, message[m], NoCall, walk[m])
  BY FitIdle, NoCallIdle DEF ListsInv
<1>6. Fit(rows, list, message'[m], call'[m], walk'[m])
  BY <1>1, <1>2, <1>5 DEF ListsTypeOK
<1> QED
  BY <1>4, <1>6, AloneKeeps

\* A handler that fails.
LEMMA AbortFit ==
  ASSUME ListsTypeOK, ListsInv, NEW m \in Messages, Abort(m)
  PROVE  (ListsTypeOK /\ ListsInv)'
<1>1. UNCHANGED <<list, subjects, rows, message, fsm, walk, opens, changes>> /\ Stop(m)
  BY DEF Abort, table
<1>2. /\ call' = [call EXCEPT ![m] = NoCall]
      /\ call' \in [Messages -> Handlers]
  BY <1>1, StopCall
<1>3. Alone(m)
  BY <1>1, <1>2 DEF Alone, ListsTypeOK, Walk
<1>4. Fit(rows, list, message[m], NoCall, walk[m])
  BY FitIdle, NoCallIdle DEF ListsInv
<1>5. Fit(rows, list, message'[m], call'[m], walk'[m])
  BY <1>1, <1>2, <1>4 DEF ListsTypeOK
<1> QED
  BY <1>3, <1>5, AloneKeeps

-----------------------------------------------------------------------------
(* Lists: what changes the rows *)

\* The rows of s are changed, the rest is disturbed or not: the types.
Rewritten(s) ==
  /\ rows' \in [Subjects -> Seq(Rows)]
  /\ \A t \in Subjects : IsInjective(rows'[t]) /\ (t # s => rows'[t] = rows[t])

\* Handlers stay calls.
LEMMA UnquietCall ==
  ASSUME NEW c \in Handlers, NEW s
  PROVE  Unquiet(c, s) \in Handlers
<1>1. CASE c \notin Call
  BY <1>1, Busied DEF Unquiet, Busy
<1>2. CASE c \in Call
  <2>1. [c EXCEPT !.quiet = FALSE] \in Call
    BY <1>2 DEF Call
  <2> QED
    BY <1>2, <2>1 DEF Unquiet, Handlers
<1> QED
  BY <1>1, <1>2

\* A row that comes.
LEMMA PlaceRewrites ==
  ASSUME ListsTypeOK, NEW s \in Subjects, NEW r \in Rows, r \notin Range(rows[s]),
         NEW i \in 1..Len(rows[s]) + 1, Place(s, r, i)
  PROVE  Rewritten(s) /\ rows'[s] = InsertAt(rows[s], i, r)
<1>1. rows \in [Subjects -> Seq(Rows)] /\ \A t \in Subjects : IsInjective(rows[t])
  BY DEF ListsTypeOK
<1>2. PICK q \in Seq(Rows) : q = rows[s] /\ IsInjective(q)
  BY <1>1
<1>3. InsertAt(q, i, r) \in Seq(Rows)
  BY <1>2, Inserted DEF RowAdded
<1>4. IsInjective(InsertAt(q, i, r))
  BY <1>2, InsertedOnce
<1> DEFINE p == InsertAt(q, i, r)
<1>5. rows' = [rows EXCEPT ![s] = p]
  BY <1>2 DEF Place
<1> HIDE DEF p
<1>6. p \in Seq(Rows) /\ IsInjective(p)
  BY <1>3, <1>4 DEF p
<1>7. rows'[s] = p /\ \A t \in Subjects : t # s => rows'[t] = rows[t]
  BY <1>1, <1>5
<1>8. Rewritten(s)
  BY <1>1, <1>5, <1>6, <1>7 DEF Rewritten
<1> QED
  BY <1>2, <1>7, <1>8 DEF p

\* A row that goes.
LEMMA VanishRewrites ==
  ASSUME ListsTypeOK, NEW s \in Subjects, NEW i \in 1..Len(rows[s]), Vanish(s, i)
  PROVE  Rewritten(s)
<1>1. rows \in [Subjects -> Seq(Rows)] /\ \A t \in Subjects : IsInjective(rows[t])
  BY DEF ListsTypeOK
<1>2. PICK q \in Seq(Rows) : q = rows[s] /\ IsInjective(q)
  BY <1>1
<1>3. RemoveAt(q, i) \in Seq(Rows)
  BY <1>2, Removed DEF RowTaken
<1>4. IsInjective(RemoveAt(q, i))
  BY <1>2, RemovedOnce
<1> DEFINE p == RemoveAt(q, i)
<1>5. rows' = [rows EXCEPT ![s] = p]
  BY <1>2 DEF Vanish
<1> HIDE DEF p
<1>6. p \in Seq(Rows) /\ IsInjective(p)
  BY <1>3, <1>4 DEF p
<1>7. rows'[s] = p /\ \A t \in Subjects : t # s => rows'[t] = rows[t]
  BY <1>1, <1>5
<1> QED
  BY <1>1, <1>5, <1>6, <1>7 DEF Rewritten

\* Two rows that change places.
LEMMA SwapRewrites ==
  ASSUME ListsTypeOK, NEW s \in Subjects, NEW i \in 1..Len(rows[s]) - 1,
         rows' = [rows EXCEPT ![s][i] = rows[s][i + 1], ![s][i + 1] = rows[s][i]]
  PROVE  Rewritten(s)
<1>1. rows \in [Subjects -> Seq(Rows)] /\ \A t \in Subjects : IsInjective(rows[t])
  BY DEF ListsTypeOK
<1>2. PICK q \in Seq(Rows) : q = rows[s] /\ IsInjective(q)
  BY <1>1
<1> DEFINE p == [q EXCEPT ![i] = q[i + 1], ![i + 1] = q[i]]
<1>3. rows' = [rows EXCEPT ![s] = p]
  BY <1>1, <1>2
<1>4. i \in 1..Len(q) - 1
  BY <1>2
<1>5. PICK o : o = p
  OBVIOUS
<1>6. o \in Seq(Rows) /\ IsInjective(o)
  BY <1>2, <1>4, <1>5, Swapped
<1>7. rows' = [rows EXCEPT ![s] = o]
  BY <1>3, <1>5
<1> HIDE DEF p
<1>8. rows'[s] = o /\ \A t \in Subjects : t # s => rows'[t] = rows[t]
  BY <1>1, <1>7
<1> QED
  BY <1>1, <1>6, <1>7, <1>8 DEF Rewritten

\* The rows of s change and those who know of them are told.
LEMMA DisturbFit ==
  ASSUME ListsTypeOK, ListsInv, NEW s \in Subjects, Rewritten(s), Disturb(s),
         call' = [m \in Messages |-> Unquiet(call[m], s)], changes' \in 0..MaxChanges,
         UNCHANGED <<list, subjects, message, fsm, opens>>
  PROVE  (ListsTypeOK /\ ListsInv)'
<1>1. call' \in [Messages -> Handlers]
  <2>1. \A m \in Messages : Unquiet(call[m], s) \in Handlers
    BY UnquietCall DEF ListsTypeOK
  <2> QED
    BY <2>1
<1>2. NoWalk \in Walk
  BY Blanks
<1>3. walk' \in [Messages -> Walk]
  BY <1>2 DEF ListsTypeOK, Disturb, Walk
<1>4. ListsTypeOK'
  BY <1>1, <1>3 DEF ListsTypeOK, Rewritten, Walk
<1>5. ASSUME NEW m \in Messages PROVE Fit(rows', list', message'[m], call'[m], walk'[m])
  <2>1. Fit(rows, list, message[m], call[m], walk[m]) /\ call[m] \in Handlers
    BY DEF ListsInv, ListsTypeOK
  <2>2. \A t \in Subjects : t # s => rows'[t] = rows[t]
    BY DEF Rewritten
  <2>3. Fit(rows', list, message[m], Unquiet(call[m], s),
            IF message[m].of = s THEN NoWalk ELSE walk[m])
    BY <2>1, <2>2, FitDisturbed
  <2>4. /\ list' = list /\ message'[m] = message[m] /\ call'[m] = Unquiet(call[m], s)
        /\ walk'[m] = IF message[m].of = s THEN NoWalk ELSE walk[m]
    BY DEF Disturb
  <2> QED
    BY <2>3, <2>4
<1> QED
  BY <1>4, <1>5 DEF ListsInv, Fit

\* A row that comes behind the others.
LEMMA GrowAtEnd ==
  ASSUME ListsTypeOK, ListsInv, NEW s \in Subjects, NEW r \in Rows, r \notin Range(rows[s]),
         Place(s, r, Len(rows[s]) + 1), UNCHANGED walk,
         call' = [m \in Messages |-> Unquiet(call[m], s)], changes' \in 0..MaxChanges,
         UNCHANGED <<list, subjects, message, fsm, opens>>
  PROVE  (ListsTypeOK /\ ListsInv)'
<1>1. rows \in [Subjects -> Seq(Rows)]
  BY DEF ListsTypeOK
<1>2. PICK i : i = Len(rows[s]) + 1
  OBVIOUS
<1>3. i \in 1..Len(rows[s]) + 1 /\ Place(s, r, i)
  BY <1>1, <1>2
<1>4. Rewritten(s) /\ rows'[s] = InsertAt(rows[s], i, r)
  BY <1>3, PlaceRewrites
<1>5. PICK q \in Seq(Rows) : q = rows[s]
  BY <1>1
<1>6. i \in 1..Len(q) + 1
  BY <1>3, <1>5
<1>7. RowAdded(Rows, q, i, r, InsertAt(q, i, r))
  BY <1>6, Inserted
<1>8. PICK p : p = InsertAt(q, i, r)
  OBVIOUS
<1>9. Len(q) \in Nat /\ i = Len(q) + 1 /\ Len(p) = Len(q) + 1
      /\ \A j \in 1..Len(q) : p[j] = q[j]
  <2>1. RowAdded(Rows, q, i, r, p) /\ i = Len(q) + 1 /\ Len(q) \in Nat
    BY <1>2, <1>5, <1>7, <1>8
  <2> QED
    BY <2>1 DEF RowAdded
<1> DEFINE Q == rows'
<1>10. Len(Q[s]) = Len(rows[s]) + 1
  BY <1>4, <1>5, <1>8, <1>9
<1>11. \A j \in 1..Len(rows[s]) : Q[s][j] = rows[s][j]
  BY <1>4, <1>5, <1>8, <1>9
<1>12. \A t \in Subjects : t # s => Q[t] = rows[t]
  BY <1>4 DEF Rewritten
<1>13. call' \in [Messages -> Handlers]
  <2>1. \A m \in Messages : Unquiet(call[m], s) \in Handlers
    BY UnquietCall DEF ListsTypeOK
  <2> QED
    BY <2>1
<1>14. ListsTypeOK'
  BY <1>4, <1>13 DEF ListsTypeOK, Rewritten
<1>15. ASSUME NEW m \in Messages PROVE Fit(rows', list', message'[m], call'[m], walk'[m])
  <2>1. Fit(rows, list, message[m], call[m], walk[m]) /\ call[m] \in Handlers
    BY DEF ListsInv, ListsTypeOK
  <2>2. message[m] \in Shown /\ walk[m] \in Walk
    BY Waits
  <2>3. Fit(Q, list, message[m], Unquiet(call[m], s), walk[m])
    <3> HIDE DEF Q
    <3> QED
      BY <1>1, <1>10, <1>11, <1>12, <2>1, <2>2, FitGrown
  <2>4. call'[m] = Unquiet(call[m], s)
    OBVIOUS
  <2> QED
    BY <2>3, <2>4
<1> QED
  BY <1>14, <1>15 DEF ListsInv, Fit

\* What others change.
LEMMA ChangeFit ==
  ASSUME ListsTypeOK, ListsInv, Change
  PROVE  (ListsTypeOK /\ ListsInv)'
<1>1. changes' \in 0..MaxChanges /\ UNCHANGED <<list, subjects, message, fsm, opens>>
  BY ListsAssumption DEF Change, ListsTypeOK
<1>2. subjects \subseteq Subjects /\ rows \in [Subjects -> Seq(Rows)]
  BY DEF ListsTypeOK
<1>3. CASE Grow
  <2>1. PICK s \in subjects, r \in Rows \ UNION {Range(rows[t]) : t \in Subjects} :
          /\ \/ Place(s, r, Len(rows[s]) + 1) /\ UNCHANGED walk
             \/ \E i \in 1..Len(rows[s]) + 1 : Place(s, r, i) /\ Disturb(s)
          /\ call' = [m \in Messages |-> Unquiet(call[m], s)]
    <3>1. PICK s \in subjects, r \in Rows \ UNION {Range(rows[t]) : t \in Subjects} :
          /\ \/ list.query.grows = "end" /\ Place(s, r, Len(rows[s]) + 1) /\ UNCHANGED walk
             \/ list.query.grows = "front" /\ Place(s, r, 1) /\ Disturb(s)
             \/ /\ list.query.grows = "anywhere" /\ Disturb(s)
                /\ \E i \in 1..Len(rows[s]) + 1 : Place(s, r, i)
          /\ call' = [m \in Messages |-> Unquiet(call[m], s)]
      BY <1>3 DEF Grow
    <3>2. 1 \in 1..Len(rows[s]) + 1
      BY <1>2
    <3> QED
      BY <3>1, <3>2
  <2>2. s \in Subjects /\ r \in Rows /\ r \notin Range(rows[s])
    BY <1>2, <2>1
  <2>3. CASE Place(s, r, Len(rows[s]) + 1) /\ UNCHANGED walk
    BY <1>1, <2>1, <2>2, <2>3, GrowAtEnd
  <2>4. ASSUME NEW i \in 1..Len(rows[s]) + 1, Place(s, r, i), Disturb(s)
        PROVE  (ListsTypeOK /\ ListsInv)'
    <3>1. Rewritten(s)
      BY <2>2, <2>4, PlaceRewrites
    <3> QED
      BY <1>1, <2>1, <2>2, <2>4, <3>1, DisturbFit
  <2> QED
    BY <2>1, <2>3, <2>4
<1>4. CASE Shrink
  <2>1. PICK s \in subjects : \E i \in 1..Len(rows[s]) :
          /\ Vanish(s, i) /\ Disturb(s)
          /\ call' = [m \in Messages |-> Unquiet(call[m], s)]
    BY <1>4 DEF Shrink
  <2>2. s \in Subjects
    BY <1>2
  <2>3. Rewritten(s)
    BY <2>1, <2>2, VanishRewrites
  <2> QED
    BY <1>1, <2>1, <2>2, <2>3, DisturbFit
<1>5. CASE Move
  <2>1. PICK s \in subjects : \E i \in 1..Len(rows[s]) - 1 :
          /\ rows' = [rows EXCEPT ![s][i] = rows[s][i + 1], ![s][i + 1] = rows[s][i]]
          /\ Disturb(s) /\ call' = [m \in Messages |-> Unquiet(call[m], s)]
    BY <1>5 DEF Move
  <2>2. s \in Subjects
    BY <1>2
  <2>3. Rewritten(s)
    BY <2>1, <2>2, SwapRewrites
  <2> QED
    BY <1>1, <2>1, <2>2, <2>3, DisturbFit
<1> QED
  BY <1>3, <1>4, <1>5 DEF Change

\* Deleting a row that is gone.
LEMMA DeleteNothing ==
  ASSUME ListsTypeOK, ListsInv, NEW m \in Messages, list = Position, call[m] = NoCall,
         message' = [message EXCEPT ![m] = [Blank EXCEPT !.at = "detail", !.of = fsm.detail.of,
                                                         !.page = fsm.detail.page]],
         walk' = [walk EXCEPT ![m] = NoWalk],
         UNCHANGED <<list, subjects, rows, call, fsm, opens, changes>>
  PROVE  (ListsTypeOK /\ ListsInv)'
<1> DEFINE y == [Blank EXCEPT !.at = "detail", !.of = fsm.detail.of, !.page = fsm.detail.page]
<1>1. fsm.detail.of \in Subjects \cup {Null} /\ fsm.detail.page \in Nat
  BY DEF ListsTypeOK, Data, NoDetail
<1>2. y \in Shown /\ ~ y.prev
  BY <1>1 DEF Blank, Shown
<1>3. message' = [message EXCEPT ![m] = y]
  OBVIOUS
<1> HIDE DEF y
<1>4. NoWalk \in Walk
  BY Blanks
<1>5. message' \in [Messages -> Shown] /\ walk' \in [Messages -> Walk]
  BY <1>2, <1>3, <1>4 DEF ListsTypeOK, Walk
<1>6. Alone(m)
  BY <1>3, <1>5 DEF Alone, ListsTypeOK
<1>7. Fit(rows, list, y, NoCall, NoWalk)
  BY <1>2, NoCallIdle DEF Fit
<1>8. message'[m] = y /\ call'[m] = NoCall /\ walk'[m] = NoWalk
  BY <1>3 DEF ListsTypeOK
<1> QED
  BY <1>6, <1>7, <1>8, AloneKeeps

\* A deletion is answered with the list, drawn again, or with nothing.
Answers(x, y, d) ==
  \/ y = x /\ d.op = "redraw" /\ d.at = "number" /\ d.rows = Null
  \/ y = Blank /\ d = NoCall

\* Deleting a row of s.
LEMMA DeleteRow ==
  ASSUME ListsTypeOK, ListsInv, NEW m \in Messages, list = Position, call[m] = NoCall,
         NEW s \in Subjects, NEW i \in 1..Len(rows[s]), Vanish(s, i), Disturb(s),
         NEW d \in Handlers, NEW y \in Shown,
         message' = [message EXCEPT ![m] = y],
         call' = [[x \in Messages |-> Unquiet(call[x], s)] EXCEPT ![m] = d],
         Answers(message[m], y, d),
         UNCHANGED <<list, subjects, fsm, opens, changes>>
  PROVE  (ListsTypeOK /\ ListsInv)'
<1>1. Rewritten(s)
  BY VanishRewrites
<1>2. call' \in [Messages -> Handlers]
  <2>1. \A x \in Messages : Unquiet(call[x], s) \in Handlers
    BY UnquietCall DEF ListsTypeOK
  <2> QED
    BY <2>1
<1>3. NoWalk \in Walk
  BY Blanks
<1>4. walk' \in [Messages -> Walk]
  BY <1>3 DEF ListsTypeOK, Disturb, Walk
<1>5. message' \in [Messages -> Shown]
  BY DEF ListsTypeOK
<1>6. ListsTypeOK'
  BY <1>1, <1>2, <1>4, <1>5 DEF ListsTypeOK, Rewritten, Walk
<1>7. ASSUME NEW x \in Messages PROVE Fit(rows', list', message'[x], call'[x], walk'[x])
  <2> DEFINE v == IF message[x].of = s THEN NoWalk ELSE walk[x]
  <2>1. Fit(rows, list, message[x], call[x], walk[x]) /\ call[x] \in Handlers
    BY DEF ListsInv, ListsTypeOK
  <2>2. \A t \in Subjects : t # s => rows'[t] = rows[t]
    BY <1>1 DEF Rewritten
  <2>3. Fit(rows', list, message[x], Unquiet(call[x], s), v)
    BY <2>1, <2>2, FitDisturbed
  <2>4. list' = list /\ walk'[x] = v
    BY DEF Disturb
  <2> HIDE DEF v
  <2>5. CASE x # m
    <3>1. message'[x] = message[x] /\ call'[x] = Unquiet(call[x], s)
      BY <2>5 DEF ListsTypeOK
    <3> QED
      BY <2>3, <2>4, <3>1
  <2>6. CASE x = m
    <3>1. message'[x] = y /\ call'[x] = d
      BY <2>6 DEF ListsTypeOK
    <3>2. CASE y = Blank /\ d = NoCall
      <4>1. Fit(rows', list, Blank, NoCall, v)
        BY FitBlank
      <4> QED
        BY <2>4, <3>1, <3>2, <4>1
    <3>3. CASE y = message[m] /\ d.op = "redraw" /\ d.at = "number" /\ d.rows = Null
      <4>1. CallFits(list, d)
        BY <3>3 DEF CallFits
      <4>2. Knows(rows', d)
        BY <3>3 DEF Knows
      <4>3. ~ (v # NoWalk /\ d.op = "page")
        BY <3>3
      <4>4. Fit(rows', list, message[x], d, v)
        BY <2>3, <4>1, <4>2, <4>3, FitCall
      <4> QED
        BY <2>4, <2>6, <3>1, <3>3, <4>4
    <3> QED
      BY <3>2, <3>3 DEF Answers
  <2> QED
    BY <2>5, <2>6
<1> QED
  BY <1>6, <1>7 DEF ListsInv, Fit

\* The button that deletes.
LEMMA DeleteFit ==
  ASSUME ListsTypeOK, ListsInv, NEW m \in Messages, Delete(m)
  PROVE  (ListsTypeOK /\ ListsInv)'
<1> DEFINE d == fsm.detail
           here == {s \in Subjects : message[m].row \in Range(rows[s])}
<1>1. list = Position /\ call[m] = NoCall /\ UNCHANGED <<list, subjects, fsm, opens, changes>>
  BY DEF Delete
<1>2. CASE /\ message' = [message EXCEPT ![m] = [Blank EXCEPT !.at = "detail", !.of = d.of,
                                                              !.page = d.page]]
           /\ walk' = [walk EXCEPT ![m] = NoWalk]
           /\ UNCHANGED <<rows, call>>
  BY <1>1, <1>2, DeleteNothing
<1>3. ASSUME NEW s \in Subjects, NEW i \in 1..Len(rows[s]), Vanish(s, i), Disturb(s),
             d # NoDetail, UNCHANGED message,
             call' = [[x \in Messages |-> Unquiet(call[x], s)] EXCEPT ![m] =
                       [at |-> "number", op |-> "redraw", of |-> d.of, from |-> d.name,
                        page |-> d.page, total |-> Null, rows |-> Null, quiet |-> TRUE]]
      PROVE  (ListsTypeOK /\ ListsInv)'
  <2> DEFINE c == [at |-> "number", op |-> "redraw", of |-> d.of, from |-> d.name,
                   page |-> d.page, total |-> Null, rows |-> Null, quiet |-> TRUE]
  <2>1. d.of \in Subjects \cup {Null} /\ d.name \in Subjects /\ d.page \in Nat
    BY <1>3 DEF ListsTypeOK, Data
  <2>2. c \in Call /\ c \in Handlers
    BY <2>1 DEF Call, Handlers
  <2>4. Answers(message[m], message[m], c)
    BY DEF Answers
  <2>5. message[m] \in Shown /\ message' = [message EXCEPT ![m] = message[m]]
    BY <1>3, Waits DEF ListsTypeOK
  <2>6. call' = [[x \in Messages |-> Unquiet(call[x], s)] EXCEPT ![m] = c]
    BY <1>3
  <2> HIDE DEF c
  <2> QED
    BY <1>1, <1>3, <2>2, <2>4, <2>5, <2>6, DeleteRow
<1>4. ASSUME NEW s \in Subjects, NEW i \in 1..Len(rows[s]), Vanish(s, i), Disturb(s),
             message' = [message EXCEPT ![m] = Blank],
             call' = [x \in Messages |-> Unquiet(call[x], s)]
      PROVE  (ListsTypeOK /\ ListsInv)'
  <2>1. Unquiet(call[m], s) = NoCall
    BY <1>1, NoCallIdle DEF Unquiet, Busy
  <2>2. call' = [[x \in Messages |-> Unquiet(call[x], s)] EXCEPT ![m] = NoCall]
    BY <1>4, <2>1
  <2>3. Answers(message[m], Blank, NoCall)
    BY DEF Answers
  <2>4. Blank \in Shown /\ NoCall \in Handlers
    BY Blanks DEF Handlers
  <2> QED
    BY <1>1, <1>4, <2>2, <2>3, <2>4, DeleteRow
<1> QED
  BY <1>2, <1>3, <1>4 DEF Delete

\* Clearing the FSM data.
LEMMA ClearFit ==
  ASSUME ListsTypeOK, ListsInv, Clear
  PROVE  (ListsTypeOK /\ ListsInv)'
<1>1. NoData \in Data
  BY Blanks
<1>2. /\ fsm' = NoData
      /\ UNCHANGED <<list, subjects, rows, message, call, walk, opens, changes>>
  BY DEF Clear, table
<1>3. ListsTypeOK'
  BY <1>1, <1>2 DEF ListsTypeOK
<1>4. \A m \in Messages : Fit(rows', list', message'[m], call'[m], walk'[m])
  BY <1>2 DEF ListsInv
<1> QED
  BY <1>3, <1>4 DEF ListsInv, Fit

\* The lists begin with nothing shown.
LEMMA ListsBegin == ListsInit => ListsTypeOK /\ ListsInv
<1> SUFFICES ASSUME ListsInit PROVE ListsTypeOK /\ ListsInv
  OBVIOUS
<1>1. Cardinality(Rows) \in Nat
  BY ListsAssumption, FS_CardinalityType
<1>2. BoundedSeq(Rows, Cardinality(Rows)) \subseteq Seq(Rows)
  <2>1. \A n \in Nat : [1..n -> Rows] \subseteq Seq(Rows)
    OBVIOUS
  <2> QED
    BY <1>1, <2>1 DEF BoundedSeq, SeqOf
<1>3. rows \in [Subjects -> Seq(Rows)] /\ \A s \in Subjects : IsInjective(rows[s])
  BY <1>2 DEF ListsInit
<1>4. list \in AllLists /\ subjects \subseteq Subjects
  BY DEF ListsInit
<1>5. /\ message = [m \in Messages |-> Blank] /\ call = [m \in Messages |-> NoCall]
      /\ fsm = NoData /\ walk = [m \in Messages |-> NoWalk] /\ opens = 0 /\ changes = 0
  BY DEF ListsInit
<1>6. Blank \in Shown /\ NoWalk \in [left : SUBSET Rows, number : Nat \cup {Null}]
      /\ NoData \in Data
  BY Blanks DEF Walk
<1>7. ListsTypeOK
  BY <1>3, <1>4, <1>5, <1>6, ListsAssumption DEF ListsTypeOK, Handlers
<1>8. \A m \in Messages : Fit(rows, list, Blank, NoCall, NoWalk)
  BY FitBlank
<1>9. ListsInv
  BY <1>5, <1>8 DEF ListsInv
<1> QED
  BY <1>7, <1>9

\* And every step keeps what messages, calls and walks know true.
LEMMA ListsStep ==
  ASSUME ListsTypeOK, ListsInv, [ListsNext]_listsVars
  PROVE  (ListsTypeOK /\ ListsInv)'
<1>1. ASSUME NEW m \in Messages, Open(m) PROVE (ListsTypeOK /\ ListsInv)'
  BY <1>1, OpenFit
<1>2. ASSUME NEW m \in Messages, Turn(m) PROVE (ListsTypeOK /\ ListsInv)'
  BY <1>2, TurnFit
<1>3. ASSUME NEW m \in Messages, View(m) PROVE (ListsTypeOK /\ ListsInv)'
  BY <1>3, ViewFit
<1>4. ASSUME NEW m \in Messages, Back(m) PROVE (ListsTypeOK /\ ListsInv)'
  BY <1>4, BackFit
<1>5. ASSUME NEW m \in Messages, Delete(m) PROVE (ListsTypeOK /\ ListsInv)'
  BY <1>5, DeleteFit
<1>6. ASSUME NEW m \in Messages, CountRows(m) PROVE (ListsTypeOK /\ ListsInv)'
  BY <1>6, CountRowsFit
<1>7. ASSUME NEW m \in Messages, FetchRows(m) PROVE (ListsTypeOK /\ ListsInv)'
  BY <1>7, FetchRowsFit
<1>8. ASSUME NEW m \in Messages, Abort(m) PROVE (ListsTypeOK /\ ListsInv)'
  BY <1>8, AbortFit
<1>10. ASSUME NEW m \in Messages, Store(m) PROVE (ListsTypeOK /\ ListsInv)'
  BY <1>10, StoreFit
<1>9. CASE UNCHANGED listsVars
  <2>1. UNCHANGED <<list, subjects, rows, message, fsm, call, walk, opens, changes>>
    BY <1>9 DEF listsVars
  <2>2. ListsTypeOK'
    BY <2>1 DEF ListsTypeOK
  <2>3. \A m \in Messages : Fit(rows', list', message'[m], call'[m], walk'[m])
    BY <2>1 DEF ListsInv
  <2> QED
    BY <2>2, <2>3 DEF ListsInv, Fit
<1> QED
  BY <1>1, <1>2, <1>3, <1>4, <1>5, <1>6, <1>7, <1>8, <1>9, <1>10, ClearFit, ChangeFit
  DEF ListsNext

\* So the invariants hold always.
LEMMA ListsAlways == ListsSpec => [](ListsTypeOK /\ ListsInv)
  BY ListsBegin, ListsStep, PTL DEF ListsSpec

\* The messages, the calls, the walks and the FSM data of the lists have their types,
\* and no row is in a list twice: whatever was shown, deleted or cleared meanwhile,
\* the page handlers query a page number and a total that exist.
THEOREM ListsTypeCorrect == ListsSpec => []ListsTypeOK
  BY ListsAlways, PTL

\* Nobody who walks undisturbed through a list misses a row, and no button leads them
\* to an empty page.
THEOREM WalkSeesAll == ListsSpec => []SteadyWalkSeesAll
<1>1. ASSUME ListsTypeOK, ListsInv PROVE SteadyWalkSeesAll
  <2> SUFFICES ASSUME NEW m \in Messages, walk[m] # NoWalk, message[m].at = "list"
               PROVE  /\ list.turns /\ ~ message[m].next => walk[m].left = {}
                      /\ message[m].next =>
                           Len(rows[message[m].of]) > (message[m].page + 1) * PerPage
    BY DEF SteadyWalkSeesAll
  <2>1. Walked(rows, message[m], walk[m])
    BY <1>1 DEF ListsInv, Fit
  <2>2. message[m].page \in Nat
    BY <1>1, Waits DEF Shown
  <2>3. LastOf(message[m].page) \in Nat
    BY <2>2, LastNat
  <2>4. /\ message[m].of \in Subjects /\ Len(rows[message[m].of]) \in Nat
        /\ walk[m].number \in 0..Len(rows[message[m].of])
    BY <1>1, <2>1 DEF Walked, ListsTypeOK
  <2>5. ~ message[m].next => walk[m].left = {}
    BY <2>1, <2>3, <2>4 DEF Walked
  <2>6. message[m].next => LastOf(message[m].page) < Len(rows[message[m].of])
    BY <2>1 DEF Walked
  <2>7. PICK k \in Nat : k = LastOf(message[m].page)
    BY <2>3
  <2>8. message[m].next => Len(rows[message[m].of]) > k
    BY <2>4, <2>6, <2>7
  <2>9. k = (message[m].page + 1) * PerPage
    BY <2>7 DEF LastOf
  <2> QED
    BY <2>5, <2>8, <2>9
<1> QED
  BY <1>1, ListsAlways, PTL

\* A handler that counts draws no list after a deletion: the rows are not queried yet.
LEMMA CountRowsDraws ==
  ASSUME ListsTypeOK, ListsInv, NEW m \in Messages, CountRows(m), call[m].op = "redraw"
  PROVE  message'[m] = message[m] \/ message'[m].at = "none"
<1>1. call[m] \in Call /\ call[m].at = "number" /\ call[m] # NoCall
  BY CountRowsStep, Waits
<1>2. call[m].rows = Null
  BY <1>1 DEF ListsInv, Fit, CallFits, Busy
<1>3. CASE Nothing(m)
  <2>1. message' = [message EXCEPT ![m] = Blank]
    BY <1>3, NothingTypes
  <2> QED
    BY <2>1 DEF Blank, ListsTypeOK
<1>4. Nothing(m) \/ UNCHANGED message
  BY <1>2 DEF CountRows
<1> QED
  BY <1>3, <1>4

\* One that queries the rows of a page that exists, and still does, draws some.
LEMMA FetchRowsDraws ==
  ASSUME ListsTypeOK, ListsInv, NEW m \in Messages, FetchRows(m), call[m].op = "redraw",
         call[m].quiet
  PROVE  \/ message'[m] = message[m] \/ message'[m].at = "none"
         \/ message'[m].rows # {}
<1> DEFINE c == call[m]
           page == GetPage(c.from, c.page)
           d == [c EXCEPT !.rows = page]
<1>1. c \in Call /\ c.at = "rows" /\ c # NoCall /\ page \in Seq(Rows)
  BY FetchRowsStep, Waits
<1>2. CASE Nothing(m)
  <2>1. message' = [message EXCEPT ![m] = Blank]
    BY <1>2, NothingTypes
  <2> QED
    BY <2>1 DEF Blank, ListsTypeOK
<1>3. CASE Display(m, d) /\ d \in Call /\ c.total \in Nat
  <2>1. Knows(rows, c)
    BY <1>1 DEF ListsInv, Fit, Busy
  <2>2. c.page * PerPage < Len(rows[c.from])
    BY <1>1, <2>1 DEF Knows
  <2>3. rows[c.from] \in Seq(Rows) /\ c.page \in Nat
    BY <1>1, Waits DEF Call
  <2>4. Range(page) # {}
    <3>1. PICK s \in {c.from}, k \in Nat : s = c.from /\ k = c.page
      BY <2>3
    <3>2. rows[s] \in Seq(Rows) /\ k * PerPage < Len(rows[s])
      BY <2>2, <2>3, <3>1
    <3>3. Range(GetPage(s, k)) # {}
      BY <3>2, PageRows
    <3> QED
      BY <3>1, <3>3
  <2>5. d.rows = page /\ d.rows \in Seq(Rows) /\ d.total \in Nat
    BY <1>1, <1>3 DEF Call
  <2> HIDE DEF d, page
  <2>6. message' = [message EXCEPT ![m] = Drawn(d)]
    BY <1>3, <2>5, DisplayTypes
  <2>7. Drawn(d).rows = Range(d.rows)
    BY DEF Drawn, Blank
  <2>8. message'[m] = Drawn(d)
    BY <2>6 DEF ListsTypeOK
  <2> QED
    BY <2>4, <2>5, <2>7, <2>8
<1>4. \/ Nothing(m)
      \/ Display(m, d) /\ d \in Call /\ c.total \in Nat
      \/ UNCHANGED message
  BY FetchRowsStep
<1> QED
  BY <1>2, <1>3, <1>4

\* The handler of a message edits that message only.
LEMMA EditsItsOwn ==
  ASSUME ListsTypeOK, NEW x \in Messages, CountRows(x) \/ FetchRows(x),
         NEW m \in Messages, m # x
  PROVE  message'[m] = message[m]
<1>1. ASSUME NEW c, Display(x, c) PROVE message'[m] = message[m]
  BY <1>1 DEF Display, ListsTypeOK
<1>2. CASE Nothing(x)
  BY <1>2 DEF Nothing, ListsTypeOK
<1>3. \/ UNCHANGED message \/ Nothing(x)
      \/ Display(x, [call[x] EXCEPT !.total = Len(rows[call[x].from])])
      \/ Display(x, [call[x] EXCEPT !.rows = GetPage(call[x].from, call[x].page)])
  BY DEF CountRows, FetchRows
<1> QED
  BY <1>1, <1>2, <1>3

\* What is drawn after a deletion has rows, unless others took them away.
THEOREM RedrawnHasRows == ListsSpec => RedrawnPageHasRows
<1>1. ASSUME ListsTypeOK, ListsInv, [ListsNext]_listsVars, NEW m \in Messages,
             call[m] # NoCall, message'[m] # message[m],
             call[m].op = "redraw", call[m].quiet, message'[m].at = "list"
      PROVE  message'[m].rows # {}
  <2>1. message' # message
    BY <1>1
  <2>2. ASSUME NEW x \in Messages, CountRows(x) PROVE message'[m].rows # {}
    <3>1. x = m
      BY <1>1, <2>2, EditsItsOwn
    <3> QED
      BY <1>1, <2>2, <3>1, CountRowsDraws
  <2>3. ASSUME NEW x \in Messages, FetchRows(x) PROVE message'[m].rows # {}
    <3>1. x = m
      BY <1>1, <2>3, EditsItsOwn
    <3> QED
      BY <1>1, <2>3, <3>1, FetchRowsDraws
  <2>4. ASSUME NEW x \in Messages, View(x) PROVE FALSE
    <3>1. call[x] = NoCall
      BY <2>4 DEF View
    <3>2. \A y \in Messages : y # x => message'[y] = message[y]
      BY <1>1, <2>4 DEF View, ListsTypeOK
    <3> QED
      BY <1>1, <3>1, <3>2
  <2>5. ASSUME NEW x \in Messages, Delete(x) PROVE FALSE
    <3>1. call[x] = NoCall
      BY <2>5 DEF Delete
    <3>2. \A y \in Messages : y # x => message'[y] = message[y]
      BY <1>1, <2>5 DEF Delete, ListsTypeOK
    <3> QED
      BY <1>1, <3>1, <3>2
  <2>6. ASSUME NEW x \in Messages, Open(x) \/ Turn(x) \/ Back(x) \/ Store(x) \/ Abort(x) PROVE FALSE
    BY <2>1, <2>6 DEF Open, Turn, Back, Store, Abort
  <2>7. CASE Clear \/ Change \/ UNCHANGED listsVars
    BY <2>1, <2>7 DEF Clear, Change, listsVars
  <2> QED
    BY <1>1, <2>2, <2>3, <2>4, <2>5, <2>6, <2>7 DEF ListsNext
<1>2. ASSUME ListsTypeOK, ListsInv, [ListsNext]_listsVars
      PROVE  [\A m \in Messages :
                /\ call[m] # NoCall /\ message'[m] # message[m]
                /\ call[m].op = "redraw" /\ call[m].quiet /\ message'[m].at = "list"
                => message'[m].rows # {}]_listsVars
  BY <1>1, <1>2
<1> QED
  BY <1>2, ListsAlways, PTL DEF ListsSpec, RedrawnPageHasRows

=============================================================================
