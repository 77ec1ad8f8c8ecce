--------------------------- MODULE PrivacyIdeaTokens ---------------------------
(***************************************************************************)
(* The second factor of one person: the users and tokens of PrivacyIDEA.   *)
(* Every operation of PrivacyIdeaAdministrationService is several calls,   *)
(* which those of other operations may come between.  A renaming takes the *)
(* tokens from the old user and gives them to a new one.                   *)
(*                                                                         *)
(* PrivacyIDEA itself is external: a token of a user who is deleted is     *)
(* nobody's; a user who is there cannot be added.                          *)
(***************************************************************************)
EXTENDS Naturals, FiniteSets

CONSTANTS
  Serials,     \* tokens
  Hardware,    \* those that exist from the start
  PiNames,     \* usernames
  Nobody

VARIABLES
  piUsers,   \* users
  owner,     \* [Serials -> its user]
  rollout,   \* [Serials -> "none" (not there), "verify" or "enrolled"]
  piTasks,   \* operations in progress
  theirs     \* history: the tokens the person was given and not relieved of

tokenVars == <<piUsers, owner, rollout, piTasks, theirs>>

TokensOf(u) == IF u \in piUsers THEN {s \in Serials : owner[s] = u} ELSE {}
ToVerify(u) == {s \in TokensOf(u) : rollout[s] = "verify"}
Enrolled(u) == TokensOf(u) \ ToVerify(u)

\* An operation: what it does, for whom, the next call, the tokens it is about
\* and those of them that are left to do.
Task(op, user, new, serials) ==
  [op |-> op, at |-> "exists", user |-> user, new |-> new, serials |-> serials, left |-> serials]

InitializeSoftwareToken(u) == Task("init", u, u, {})
AssignHardwareToken(u, s) == Task("assign", u, u, {s})
ResetToken(u) == [Task("reset", u, u, {}) EXCEPT !.at = "list"]
VerifyTokenEnrollment(u) == [Task("verify", u, u, {}) EXCEPT !.at = "list"]
UpdateUsername(old, new) == Task("rename", old, new, {})
PersonDeleted(u) == [Task("delete", u, u, {}) EXCEPT !.at = "tokens"]

TokensTypeOK ==
  /\ piUsers \subseteq PiNames
  /\ owner \in [Serials -> PiNames \union {Nobody}]
  /\ rollout \in [Serials -> {"none", "verify", "enrolled"}]
  /\ theirs \subseteq Serials
  /\ \A s \in Serials : rollout[s] = "none" => owner[s] = Nobody

Proceed(t, at) == piTasks' = (piTasks \ {t}) \union {[t EXCEPT !.at = at]}
ProceedWith(t, at, serials) ==
  piTasks' = (piTasks \ {t}) \union {[t EXCEPT !.at = at, !.serials = serials, !.left = serials]}
\* One token after the other, in any order; all of them for the next step.
ProceedOne(t, s, next) ==
  piTasks' = (piTasks \ {t}) \union
    {IF t.left = {s} THEN [t EXCEPT !.at = next, !.left = t.serials] ELSE [t EXCEPT !.left = @ \ {s}]}
Finish(t) == piTasks' = piTasks \ {t}
stores == <<piUsers, owner, rollout>>

\* checkUserExists
CheckUserExists(t) ==
  /\ t.at = "exists"
  /\ CASE t.op = "rename" -> IF t.new \in piUsers THEN Finish(t) ELSE Proceed(t, "list")
       [] OTHER -> Proceed(t, IF t.user \in piUsers THEN "pending" ELSE "add")
  /\ UNCHANGED <<stores, theirs>>

\* addUser
AddUser(t) ==
  /\ t.at = "add" /\ UNCHANGED <<owner, rollout, theirs>>
  /\ \/ t.new \in piUsers /\ Finish(t) /\ UNCHANGED piUsers
     \/ /\ t.new \notin piUsers /\ piUsers' = piUsers \union {t.new}
        /\ Proceed(t, CASE t.op = "init" -> "init"
                        [] t.op = "assign" -> "status"
                        [] t.op = "rename" -> IF t.serials = {} THEN "deleteUser" ELSE "give")

AfterPending(t) == IF t.op = "init" THEN "init" ELSE "status"

\* getTokenToVerify, for a token that was begun before ...
FindPending(t) ==
  /\ t.at = "pending" /\ UNCHANGED <<stores, theirs>>
  /\ \/ ToVerify(t.user) = {} /\ Proceed(t, AfterPending(t))
     \/ \E s \in ToVerify(t.user) : piTasks' = (piTasks \ {t}) \union {[t EXCEPT !.at = "drop", !.left = {s}]}

\* ... which is deleted.
DropPending(t) ==
  /\ t.at = "drop" /\ UNCHANGED piUsers
  /\ \E s \in t.left :
       /\ owner' = [owner EXCEPT ![s] = Nobody]
       /\ rollout' = [rollout EXCEPT ![s] = "none"]
       /\ theirs' = theirs \ {s}
  /\ ProceedWith(t, AfterPending(t), t.serials)

\* initToken: a new token that is to be verified.
InitToken(t) ==
  /\ t.at = "init" /\ Finish(t) /\ UNCHANGED piUsers
  /\ IF t.user \notin piUsers THEN UNCHANGED <<owner, rollout, theirs>>
     ELSE \E s \in Serials \ Hardware :
            /\ rollout[s] = "none"
            /\ rollout' = [rollout EXCEPT ![s] = "verify"]
            /\ owner' = [owner EXCEPT ![s] = t.user]
            /\ theirs' = theirs \union {s}

\* verifyTokenStatus and getSerialWithOTP: the token is there and nobody's.
CheckSerial(t) ==
  /\ t.at = "status" /\ UNCHANGED <<stores, theirs>>
  /\ \E s \in t.serials :
       IF rollout[s] = "none" \/ owner[s] # Nobody THEN Finish(t) ELSE Proceed(t, "give")

\* assignToken, for one token.  Somebody may have got the token meanwhile; it is
\* left open whether he loses it.
GiveToken(t) ==
  /\ t.at = "give" /\ UNCHANGED <<piUsers, rollout>>
  /\ \E s \in t.left :
       \/ /\ t.new \in piUsers /\ rollout[s] # "none"
          /\ owner' = [owner EXCEPT ![s] = t.new]
          /\ theirs' = IF t.op = "assign" THEN theirs \union {s} ELSE theirs
          /\ IF t.op = "assign" THEN Finish(t) ELSE ProceedOne(t, s, "deleteUser")
       \/ /\ t.new \notin piUsers \/ rollout[s] = "none" \/ owner[s] # Nobody
          /\ Finish(t) /\ UNCHANGED <<owner, theirs>>

\* Mutant: only tokens that are enrolled are taken along.
ListTokens_Enrolled(t) ==
  /\ t.at = "list" /\ UNCHANGED <<stores, theirs>>
  /\ CASE t.op = "rename" -> ProceedWith(t, IF Enrolled(t.user) = {} THEN "add" ELSE "take", Enrolled(t.user))
       [] t.op = "verify" -> IF ToVerify(t.user) = {} THEN Finish(t)
                             ELSE \E s \in ToVerify(t.user) : ProceedWith(t, "confirm", {s})
       [] t.op \in {"reset", "delete"} ->
            IF Enrolled(t.user) = {} THEN Finish(t)
            ELSE \E s \in Enrolled(t.user) : ProceedWith(t, "take", {s})

\* getUserTokens: all for a renaming, the first that is or is not enrolled for
\* the others; without one they fail, and the user of a deleted person stays.
ListTokens(t) ==
  /\ t.at = "list" /\ UNCHANGED <<stores, theirs>>
  /\ CASE t.op = "rename" -> ProceedWith(t, IF TokensOf(t.user) = {} THEN "add" ELSE "take", TokensOf(t.user))
       [] t.op = "verify" -> IF ToVerify(t.user) = {} THEN Finish(t)
                             ELSE \E s \in ToVerify(t.user) : ProceedWith(t, "confirm", {s})
       [] t.op \in {"reset", "delete"} ->
            IF Enrolled(t.user) = {} THEN Finish(t)
            ELSE \E s \in Enrolled(t.user) : ProceedWith(t, "take", {s})

\* unassignToken, for one token.
TakeToken(t) ==
  /\ t.at = "take" /\ UNCHANGED <<piUsers, rollout>>
  /\ \E s \in t.left :
       /\ owner' = [owner EXCEPT ![s] = Nobody]
       /\ theirs' = IF t.op = "rename" THEN theirs ELSE theirs \ {s}
       /\ CASE t.op = "rename" -> ProceedOne(t, s, "add")
            [] t.op = "reset" -> Finish(t)
            [] t.op = "delete" -> Proceed(t, "deleteUser")

\* verifyTokenEnrollment, with the right password or a wrong one.
ConfirmToken(t) ==
  /\ t.at = "confirm" /\ Finish(t) /\ UNCHANGED <<piUsers, owner, theirs>>
  /\ \/ UNCHANGED rollout
     \/ rollout' = [s \in Serials |-> IF s \in t.serials /\ rollout[s] = "verify" THEN "enrolled" ELSE rollout[s]]

\* handlePersonDeletedEvent looks whether there are tokens to reset.
FindTokensToReset(t) ==
  /\ t.at = "tokens" /\ UNCHANGED <<stores, theirs>>
  /\ Proceed(t, IF TokensOf(t.user) = {} THEN "deleteUser" ELSE "list")

\* deleteUser, whose error is not looked at.
DeleteUser(t) ==
  /\ t.at = "deleteUser" /\ Finish(t) /\ UNCHANGED rollout
  /\ piUsers' = piUsers \ {t.user}
  /\ owner' = [s \in Serials |-> IF owner[s] = t.user THEN Nobody ELSE owner[s]]
  /\ theirs' = IF t.op = "delete" THEN {} ELSE theirs

TokenStep(t) ==
  \/ CheckUserExists(t) \/ AddUser(t) \/ FindPending(t) \/ DropPending(t) \/ InitToken(t)
  \/ CheckSerial(t) \/ GiveToken(t) \/ ListTokens(t) \/ TakeToken(t) \/ ConfirmToken(t)
  \/ FindTokensToReset(t) \/ DeleteUser(t)

\* A call fails, and with it the operation.  The calls that take or give the
\* tokens of a renaming are sent at a time: any of them may have taken effect,
\* as may a call whose answer is lost.
TokenCallFails(t) ==
  /\ Finish(t)
  /\ \E done \in SUBSET t.left :
       /\ done = {} \/ t.at \in {"take", "give"}
       /\ owner' = [s \in Serials |->
                      IF s \notin done THEN owner[s]
                      ELSE IF t.at = "take" THEN Nobody
                      ELSE IF t.new \in piUsers /\ rollout[s] # "none" THEN t.new ELSE owner[s]]
  /\ \/ UNCHANGED piUsers
     \/ t.at = "add" /\ piUsers' = piUsers \union {t.new}
  /\ UNCHANGED <<rollout, theirs>>
=============================================================================
