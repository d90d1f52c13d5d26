------------------------------- MODULE Invites -------------------------------
(***************************************************************************)
(* The invite programme: a user who starts the bot by a referrer's link is *)
(* recorded as a pending invite, the user's check of the subscription and  *)
(* the administrator settle it, every PerReward verified invites earn the  *)
(* referrer a reward, and the reward is claimed as a free purchase.        *)
(*                                                                         *)
(* Nothing here locks a row: every SELECT and every COMMIT is a step, and  *)
(* a session commits what it computed from rows that may have changed.     *)
(***************************************************************************)
EXTENDS Integers, Sequences, FiniteSets

CONSTANTS
  Users,     \* who is invited and who invites
  Starts,    \* presses of an invite link
  StartBy, StartOf, \* the user who presses it and the referrer it names
  Admins,    \* admin sessions, each of which settles invites one after the other
  Claimers,  \* presses of "claim" that may overlap
  ClaimBy,   \* the referrer of a claiming session
  Null,      \* no user
  PerReward, \* INVITES_PER_REWARD (3 in the code)
  MaxFaults  \* bound: crashes and failed marks of a behaviour

ASSUME UsersAssumption ==
  /\ Null \notin Users
  /\ StartBy \in [Starts -> Users] /\ StartOf \in [Starts -> Users]
  /\ ClaimBy \in [Claimers -> Users]
ASSUME BoundsAssumption == PerReward \in Nat \ {0} /\ MaxFaults \in Nat

VARIABLES
  invite,   \* referral_invites by invited user: its referrer and status
  rewards,  \* referral_rewards in the order they were created
  start,    \* record_invite: where a press of a link is
  verify,   \* verify_invite: where a user's check of the subscription is
  admin,    \* an admin session: where it is, its invite and what it counted
  claim,    \* a claiming session: where it is and its reward
  approved, \* history: the invites that were ever verified
  raced,    \* history: the grants to a referrer on an outdated count of rewards
  given,    \* history: how often a reward was delivered by a claim begun alone,
            \* and by one begun beside another claim of the reward
  faults

histories == <<approved, raced, given>>
tables == <<invite, rewards, histories>>
vars == <<invite, rewards, start, verify, admin, claim, approved, raced, given, faults>>

NoInvite == [by |-> Null, status |-> "none"]
Away == [at |-> "idle", of |-> Null, verified |-> 0, granted |-> 0]
NoClaim == [at |-> "idle", reward |-> 0, alone |-> FALSE]
Status(x) == invite[x].status

Init ==
  /\ invite = [x \in Users |-> NoInvite]
  /\ rewards = <<>> /\ given = <<>> /\ approved = {}
  /\ raced = [r \in Users |-> 0]
  /\ start = [s \in Starts |-> "idle"]
  /\ verify = [x \in Users |-> "idle"]
  /\ admin = [a \in Admins |-> Away]
  /\ claim = [c \in Claimers |-> NoClaim]
  /\ faults = 0

Step(f, i, to) == [f EXCEPT ![i].at = to]

-----------------------------------------------------------------------------
(* record_invite *)

RecordRead(s) ==
  /\ start[s] = "idle"
  /\ start' = [start EXCEPT ![s] =
       IF StartBy[s] = StartOf[s] \/ Status(StartBy[s]) # "none" THEN "done" ELSE "insert"]
  /\ UNCHANGED <<tables, verify, admin, claim, faults>>

\* Mutant of RecordInsert: without the unique constraint the later row wins.
RecordOver(s) ==
  /\ start[s] = "insert" /\ start' = [start EXCEPT ![s] = "done"]
  /\ invite' = [invite EXCEPT ![StartBy[s]] = [by |-> StartOf[s], status |-> "pending"]]
  /\ UNCHANGED <<rewards, histories, verify, admin, claim, faults>>

\* invited_user_id is unique: the insert of a user invited meanwhile fails.
RecordInsert(s) ==
  LET x == StartBy[s] IN
  /\ start[s] = "insert" /\ start' = [start EXCEPT ![s] = "done"]
  /\ invite' = IF Status(x) # "none" THEN invite
               ELSE [invite EXCEPT ![x] = [by |-> StartOf[s], status |-> "pending"]]
  /\ UNCHANGED <<rewards, histories, verify, admin, claim, faults>>

-----------------------------------------------------------------------------
(* verify_invite *)

VerifyRead(x) ==
  /\ verify[x] = "idle" /\ Status(x) = "pending"
  /\ verify' = [verify EXCEPT ![x] = "check"]
  /\ UNCHANGED <<tables, start, admin, claim, faults>>

\* _check_account_eligibility finds the very invite that is checked and says
\* "already_invited": the daily limit, the channel and the rest of the function
\* are never reached.  The row is read again, whatever its status is by now.
VerifyCheck(x) ==
  /\ verify[x] = "check"
  /\ verify' = [verify EXCEPT ![x] = IF Status(x) = "rejected" THEN "idle" ELSE "reject"]
  /\ UNCHANGED <<tables, start, admin, claim, faults>>

VerifyReject(x) ==
  /\ verify[x] = "reject" /\ verify' = [verify EXCEPT ![x] = "idle"]
  /\ invite' = [invite EXCEPT ![x].status = "rejected"]
  /\ UNCHANGED <<rewards, histories, start, admin, claim, faults>>

-----------------------------------------------------------------------------
(* approve_invite and reject_invite of the admin API *)

AdminRead(a) ==
  /\ admin[a].at = "idle"
  /\ \E x \in Users, do \in {"approve", "reject"} :
       /\ Status(x) = "pending"
       /\ admin' = [admin EXCEPT ![a] = [Away EXCEPT !.at = do, !.of = x]]
  /\ UNCHANGED <<tables, start, verify, claim, faults>>

Reject(a) ==
  /\ admin[a].at = "reject"
  /\ invite' = [invite EXCEPT ![admin[a].of].status = "rejected"]
  /\ admin' = [admin EXCEPT ![a] = Away]
  /\ UNCHANGED <<rewards, histories, start, verify, claim, faults>>

\* The status was looked at before: it is written over any other by now.
Approve(a) ==
  /\ admin[a].at = "approve"
  /\ invite' = [invite EXCEPT ![admin[a].of].status = "verified"]
  /\ approved' = approved \cup {admin[a].of}
  /\ admin' = Step(admin, a, "count")
  /\ UNCHANGED <<rewards, raced, given, start, verify, claim, faults>>

-----------------------------------------------------------------------------
(* _check_and_grant_reward *)

Of(a) == invite[admin[a].of].by
Verified(r) == Cardinality({x \in Users : invite[x] = [by |-> r, status |-> "verified"]})
Granted(r) == Cardinality({w \in DOMAIN rewards : rewards[w].by = r})

CountVerified(a) ==
  /\ admin[a].at = "count"
  /\ admin' = [admin EXCEPT ![a].at = "rewards", ![a].verified = Verified(Of(a))]
  /\ UNCHANGED <<tables, start, verify, claim, faults>>

CountRewards(a) ==
  /\ admin[a].at = "rewards"
  /\ admin' = [admin EXCEPT ![a].at = "grant", ![a].granted = Granted(Of(a))]
  /\ UNCHANGED <<tables, start, verify, claim, faults>>

\* Mutant of Due: the rewards granted before are not subtracted.
DueAgain(a) == admin[a].verified \div PerReward > 0

Due(a) == admin[a].verified \div PerReward > admin[a].granted

\* One call grants one reward at most, however many are due.  Another session may
\* have granted since the rewards were counted.
Grant(a) ==
  /\ admin[a].at = "grant" /\ admin' = [admin EXCEPT ![a] = Away]
  /\ IF Due(a)
       THEN /\ rewards' = Append(rewards, [by |-> Of(a), fulfilled |-> FALSE])
            /\ given' = Append(given, [alone |-> 0, beside |-> 0])
            /\ raced' = IF admin[a].granted = Granted(Of(a)) THEN raced
                        ELSE [raced EXCEPT ![Of(a)] = @ + 1]
       ELSE UNCHANGED <<rewards, given, raced>>
  /\ UNCHANGED <<invite, approved, start, verify, claim, faults>>

-----------------------------------------------------------------------------
(* claim_reward_callback *)

Unfulfilled(c) ==
  {w \in DOMAIN rewards : rewards[w].by = ClaimBy[c] /\ ~ rewards[w].fulfilled}

Claimed(w) == \E c \in Claimers : claim[c].at # "idle" /\ claim[c].reward = w

\* get_pending_reward: the oldest reward that is not fulfilled, which another
\* press of the button may be claiming.
ClaimRead(c) ==
  /\ claim[c].at = "idle"
  /\ \E w \in Unfulfilled(c) :
       /\ \A v \in Unfulfilled(c) : w <= v
       /\ claim' = [claim EXCEPT ![c] =
            [at |-> "deliver", reward |-> w, alone |-> ~ Claimed(w)]]
  /\ UNCHANGED <<tables, start, verify, admin, faults>>

Give(w, alone) ==
  IF alone THEN [given EXCEPT ![w].alone = @ + 1] ELSE [given EXCEPT ![w].beside = @ + 1]

\* The product and an endless stock row of it are there, or nothing happens.
Deliver(c) ==
  /\ claim[c].at = "deliver"
  /\ \/ /\ given' = Give(claim[c].reward, claim[c].alone)
        /\ claim' = Step(claim, c, "fulfill")
     \/ claim' = [claim EXCEPT ![c] = NoClaim] /\ UNCHANGED given
  /\ UNCHANGED <<invite, rewards, approved, raced, start, verify, admin, faults>>

\* Mutant of Fulfill: the mark is forgotten.
FulfillNot(c) ==
  /\ claim[c].at = "fulfill" /\ claim' = [claim EXCEPT ![c] = NoClaim]
  /\ UNCHANGED <<tables, start, verify, admin, faults>>

\* fulfill_reward, in a transaction of its own.
Fulfill(c) ==
  /\ claim[c].at = "fulfill" /\ claim' = [claim EXCEPT ![c] = NoClaim]
  /\ rewards' = [rewards EXCEPT ![claim[c].reward].fulfilled = TRUE]
  /\ UNCHANGED <<invite, histories, start, verify, admin, faults>>

\* That transaction fails: the referrer is told of an error and can claim again.
FulfillFails(c) ==
  /\ claim[c].at = "fulfill" /\ claim' = [claim EXCEPT ![c] = NoClaim]
  /\ faults < MaxFaults /\ faults' = faults + 1
  /\ UNCHANGED <<tables, start, verify, admin>>

-----------------------------------------------------------------------------
\* The process dies and every session with it.
Crash ==
  /\ faults < MaxFaults /\ faults' = faults + 1
  /\ start' = [s \in Starts |-> IF start[s] = "insert" THEN "done" ELSE start[s]]
  /\ verify' = [x \in Users |-> "idle"]
  /\ admin' = [a \in Admins |-> Away]
  /\ claim' = [c \in Claimers |-> NoClaim]
  /\ UNCHANGED tables

Next ==
  \/ \E s \in Starts : RecordRead(s) \/ RecordInsert(s)
  \/ \E x \in Users : VerifyRead(x) \/ VerifyCheck(x) \/ VerifyReject(x)
  \/ \E a \in Admins : \/ AdminRead(a) \/ Reject(a) \/ Approve(a)
                       \/ CountVerified(a) \/ CountRewards(a) \/ Grant(a)
  \/ \E c \in Claimers : ClaimRead(c) \/ Deliver(c) \/ Fulfill(c) \/ FulfillFails(c)
  \/ Crash

Spec == Init /\ [][Next]_vars
-----------------------------------------------------------------------------
(* Properties *)

\* A user who was invited stays with the first referrer, and nobody invites
\* himself, although two links are pressed at once.
FirstReferrerStays ==
  [][\A x \in Users : Status(x) # "none" => invite'[x].by = invite[x].by /\ invite[x].by # x]_vars

\* A referrer never gets more rewards than the invites ever verified have earned,
\* but for grants that raced: another session granted to the same referrer between
\* the count of the rewards and the grant.  What the users' own checks reject
\* meanwhile, and counts of invites that are old, make no reward too many.
RewardsEarned ==
  \A r \in Users :
    Granted(r) <= Cardinality({x \in approved : invite[x].by = r}) \div PerReward + raced[r]

\* A reward marked as fulfilled has been delivered.  Claims begun while no other
\* claim of the reward was under way deliver it once, and again only after a crash
\* or a failure between a delivery and its mark, whatever claims were begun beside
\* them: a third delivery needs another press of the button each time.
DeliveredThenMarked ==
  \A w \in DOMAIN rewards :
    /\ rewards[w].fulfilled => given[w].alone + given[w].beside > 0
    /\ given[w].alone <= 1 + faults

=============================================================================
