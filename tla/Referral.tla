------------------------------ MODULE Referral ------------------------------
(***************************************************************************)
(* Referral codes: ReferralService.  Agents' and players' codes share one  *)
(* set, but each has its own unique column, and the check across the two   *)
(* is a read before the write.  A code stands for its owner.               *)
(***************************************************************************)
EXTENDS Integers, FiniteSets, Functions

CONSTANTS Members, Codes, ReferralCalls
NoCode == "none"
ASSUME ReferralAssumption == NoCode \notin Codes
VARIABLES
  registered,    \* who has an account
  agents,        \* codes of agents, with whether they are active
  ownCode,       \* referralCode of each player, or NoCode
  linked,        \* who brought each player: a code, or NoCode
  referralCall,
  told,          \* history: the codes each player was told are theirs
  collided       \* history: a code was taken between the check and the write

referralVars == <<registered, agents, ownCode, linked, referralCall, told, collided>>
ReferralIdle(c) == referralCall[c].at = "idle"
ReferralGoes(c, call) == referralCall' = [referralCall EXCEPT ![c] = call]
ReferralDone(c) == ReferralGoes(c, [at |-> "idle"])
Tell(u, k) == told' = [told EXCEPT ![u] = @ \cup {k}]
TakenByPlayer(k) == \E u \in Members : ownCode[u] = k  \* mutant of codeTaken
codeTaken(k) == k \in DOMAIN agents \/ \E u \in Members : ownCode[u] = k

(* A request that has checked k for the other table and not written it.    *)
Awaited(k, kind) ==
  \E c \in ReferralCalls : referralCall[c].at = kind /\ referralCall[c].code = k

(* register(): a code typed is an active agent's or a player's; whoever it *)
(* is found to be, the account is made a little later.                     *)
resolveCode(k) ==
  k \in {j \in DOMAIN agents : agents[j]} \cup {ownCode[v] : v \in registered}
Register(c, u, k) ==
  /\ ReferralIdle(c) /\ u \notin registered /\ (k = NoCode \/ resolveCode(k))
  /\ ReferralGoes(c, [at |-> "register", user |-> u, code |-> k])
  /\ UNCHANGED <<registered, agents, ownCode, linked, told, collided>>
Registered(c) ==
  LET u == referralCall[c].user IN
  /\ referralCall[c].at = "register" /\ ReferralDone(c)
  /\ registered' = registered \cup {u}
  /\ linked' = IF u \in registered THEN linked ELSE [linked EXCEPT ![u] = referralCall[c].code]
  /\ UNCHANGED <<agents, ownCode, told, collided>>

(* myCode(): the player's code, or a free candidate for it.                *)
MyCode(c, u) ==
  /\ ReferralIdle(c) /\ u \in registered
  /\ \/ /\ ownCode[u] # NoCode /\ Tell(u, ownCode[u])
        /\ UNCHANGED referralCall
     \/ /\ ownCode[u] = NoCode /\ UNCHANGED told
        /\ \E k \in Codes : ~codeTaken(k) /\ ReferralGoes(c, [at |-> "mine", user |-> u, code |-> k])
  /\ UNCHANGED <<registered, agents, ownCode, linked, collided>>
(* Another player's code is an error, and having one already is no row to  *)
(* update: either way the row is read again, and if it still has no code   *)
(* another candidate is tried.                                             *)
MyCodeSet(c) ==
  LET u == referralCall[c].user
      k == referralCall[c].code
  IN /\ referralCall[c].at = "mine"
     /\ \/ /\ ownCode[u] = NoCode /\ \A v \in Members : ownCode[v] # k
           /\ ownCode' = [ownCode EXCEPT ![u] = k] /\ Tell(u, k)
           /\ collided' = (collided \/ Awaited(k, "agent"))
           /\ ReferralDone(c)
        \/ /\ ownCode[u] # NoCode /\ Tell(u, ownCode[u])
           /\ ReferralDone(c) /\ UNCHANGED <<ownCode, collided>>
        \/ /\ ownCode[u] = NoCode /\ \E v \in Members : ownCode[v] = k
           /\ \/ \E j \in Codes : ~codeTaken(j) /\ ReferralGoes(c, [at |-> "mine", user |-> u, code |-> j])
              \/ ReferralDone(c)                       \* fifty candidates later
           /\ UNCHANGED <<ownCode, told, collided>>
     /\ UNCHANGED <<registered, agents, linked>>

(* create(): an agent, with a code typed or suggested.                     *)
CreateAgent(c, k) ==
  /\ ReferralIdle(c) /\ ~codeTaken(k)
  /\ ReferralGoes(c, [at |-> "agent", code |-> k])
  /\ UNCHANGED <<registered, agents, ownCode, linked, told, collided>>
AgentCreated(c) ==
  LET k == referralCall[c].code IN
  /\ referralCall[c].at = "agent" /\ ReferralDone(c)
  /\ IF k \in DOMAIN agents THEN UNCHANGED <<agents, collided>>
     ELSE /\ agents' = [j \in DOMAIN agents \cup {k} |-> IF j = k THEN TRUE ELSE agents[j]]
          /\ collided' = (collided \/ Awaited(k, "mine"))
  /\ UNCHANGED <<registered, ownCode, linked, told>>
UpdateAgent(k) ==
  /\ k \in DOMAIN agents /\ agents' = [agents EXCEPT ![k] = ~@]
  /\ UNCHANGED <<registered, ownCode, linked, referralCall, told, collided>>

(* link(): by hand, an inactive agent's code too, but not a player's own.  *)
Link(u, k) ==
  /\ u \in registered
  /\ \/ k = NoCode
     \/ k \in DOMAIN agents
     \/ k \notin DOMAIN agents /\ k # NoCode /\ \E v \in Members \ {u} : ownCode[v] = k
  /\ linked' = [linked EXCEPT ![u] = k]
  /\ UNCHANGED <<registered, agents, ownCode, referralCall, told, collided>>

ReferralInit ==
  /\ registered = {} /\ agents = <<>>
  /\ ownCode = [u \in Members |-> NoCode] /\ linked = [u \in Members |-> NoCode]
  /\ referralCall = [c \in ReferralCalls |-> [at |-> "idle"]]
  /\ told = [u \in Members |-> {}] /\ collided = FALSE
ReferralNext ==
  \/ \E c \in ReferralCalls :
       \/ (\E u \in Members : \E k \in Codes \cup {NoCode} : Register(c, u, k)) \/ Registered(c)
       \/ (\E u \in Members : MyCode(c, u)) \/ MyCodeSet(c)
       \/ (\E k \in Codes : CreateAgent(c, k)) \/ AgentCreated(c)
  \/ \E k \in Codes : UpdateAgent(k)
  \/ \E u \in Members : \E k \in Codes \cup {NoCode} : Link(u, k)

-----------------------------------------------------------------------------
(* referral.service.ts:107 and :137: however requests overlap, a player is *)
(* told one code, the one in the row, and no two players have it; nobody   *)
(* brought themselves; and no agent shares it, unless the code was taken   *)
(* between the check and the write of the other table.                     *)
OneOwnerPerCode ==
  /\ \A u \in Members : told[u] \subseteq {ownCode[u]}
  /\ \A u, v \in Members : ownCode[u] # NoCode /\ ownCode[u] = ownCode[v] => u = v
  /\ ~collided => \A u \in Members : ownCode[u] \notin DOMAIN agents /\ (linked[u] # NoCode => linked[u] # ownCode[u])
=============================================================================
