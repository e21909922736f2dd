----------------------- MODULE AccountServices_proofs -----------------------
(***************************************************************************)
(* The services of an account, each by itself: for any number of handlers  *)
(* at a time, of players, codes, prizes, windows, days and payments.       *)
(***************************************************************************)
EXTENDS Payments, Points, PlayerLimits, Referral, OneTimeCode, PromoEvent, MoneyTheorems, TLAPS

-----------------------------------------------------------------------------
(* Referral: a code that is taken stays taken, by the same owner; what a   *)
(* handler checked may be taken since, and then by another of its kind,    *)
(* which the unique column refuses, or by the other kind, and collided.    *)

ReferralAt(c, where) == referralCall[c].at = where
CodeOf(c) == referralCall[c].code
Known == Codes \cup {NoCode}
CallTyped(c) ==
  /\ ReferralAt(c, "register") => referralCall[c].user \in Members /\ CodeOf(c) \in Known
  /\ ReferralAt(c, "mine") => referralCall[c].user \in registered /\ CodeOf(c) \in Codes
  /\ ReferralAt(c, "agent") => CodeOf(c) \in Codes
CodesTyped ==
  /\ registered \subseteq Members /\ DOMAIN agents \subseteq Codes /\ collided \in BOOLEAN
  /\ ownCode \in [Members -> Known] /\ linked \in [Members -> Known]
  /\ DOMAIN referralCall = ReferralCalls /\ DOMAIN told = Members
  /\ \A c \in ReferralCalls : CallTyped(c)

(* Code k is somebody's other than u's.                                    *)
Others(u, k) == k \in DOMAIN agents \/ \E v \in Members \ {u} : ownCode[v] = k
CodesOwned ==
  /\ \A u \in Members : ownCode[u] # NoCode => u \in registered
  /\ \A u \in Members : told[u] \subseteq {ownCode[u]}
  /\ \A u \in Members : told[u] # {} => ownCode[u] # NoCode
  /\ \A u, v \in Members : ownCode[u] # NoCode /\ ownCode[u] = ownCode[v] => u = v
  /\ \A u \in Members : linked[u] # NoCode => Others(u, linked[u])
  /\ \A c \in ReferralCalls : ReferralAt(c, "register") /\ CodeOf(c) # NoCode => Others(referralCall[c].user, CodeOf(c))
  /\ ~collided => /\ \A u \in Members : ownCode[u] \notin DOMAIN agents
                  /\ \A c \in ReferralCalls : ReferralAt(c, "mine") => CodeOf(c) \notin DOMAIN agents
                  /\ \A c \in ReferralCalls, u \in Members : ReferralAt(c, "agent") => CodeOf(c) # ownCode[u]
ReferralInv == CodesTyped /\ CodesOwned

LEMMA ReferralBegins == ReferralInit => ReferralInv
<1> SUFFICES ASSUME ReferralInit PROVE ReferralInv
  OBVIOUS
<1>1. DOMAIN agents = {} /\ \A c \in ReferralCalls : referralCall[c].at = "idle"
  BY DEF ReferralInit
<1>2. CodesTyped BY <1>1 DEF ReferralInit, CodesTyped, CallTyped, Known, ReferralAt
<1>3. CodesOwned BY <1>1 DEF ReferralInit, CodesOwned, ReferralAt
<1> QED BY <1>2, <1>3 DEF ReferralInv

LEMMA ReferralGoesOn == ReferralInv /\ [ReferralNext]_referralVars => ReferralInv'
<1> SUFFICES ASSUME ReferralInv, [ReferralNext]_referralVars PROVE ReferralInv'
  OBVIOUS
<1> USE ReferralAssumption DEF NoCode, ReferralInv, CodesTyped, CodesOwned, CallTyped, Known, ReferralAt, CodeOf, Others
<1>1. CASE UNCHANGED referralVars BY <1>1 DEF referralVars
<1>2. ASSUME NEW c \in ReferralCalls, NEW u \in Members, NEW k \in Codes \cup {NoCode}, Register(c, u, k)
      PROVE  ReferralInv'
  BY <1>2 DEF Register, ReferralIdle, ReferralGoes, resolveCode
<1>3. ASSUME NEW c \in ReferralCalls, Registered(c) PROVE ReferralInv'
  BY <1>3 DEF Registered, ReferralDone, ReferralGoes
<1>4. ASSUME NEW c \in ReferralCalls, NEW u \in Members, MyCode(c, u) PROVE ReferralInv'
  BY <1>4 DEF MyCode, ReferralIdle, ReferralGoes, codeTaken, Tell
<1>5. ASSUME NEW c \in ReferralCalls, MyCodeSet(c) PROVE ReferralInv'
  <2> DEFINE u == referralCall[c].user
             k == CodeOf(c)
  <2>1. u \in Members /\ k \in Codes /\ ReferralAt(c, "mine") BY <1>5 DEF MyCodeSet
  <2>2. CASE /\ ownCode[u] = NoCode /\ \A v \in Members : ownCode[v] # k
             /\ ownCode' = [ownCode EXCEPT ![u] = k] /\ Tell(u, k)
             /\ collided' = (collided \/ Awaited(k, "agent")) /\ ReferralDone(c)
             /\ UNCHANGED <<registered, agents, linked>>
    <3>1. /\ referralCall'[c] = [at |-> "idle"] /\ DOMAIN referralCall' = ReferralCalls
          /\ \A d \in ReferralCalls : d # c => referralCall'[d] = referralCall[d]
      BY <2>2 DEF ReferralDone, ReferralGoes
    <3>2. /\ ownCode'[u] = k /\ \A v \in Members : v # u => ownCode'[v] = ownCode[v]
          /\ told'[u] = told[u] \cup {k} /\ \A v \in Members : v # u => told'[v] = told[v]
      BY <2>1, <2>2 DEF Tell
    <3>3. CodesTyped' BY <2>1, <2>2, <3>1 DEF Tell, Awaited
    <3>4. \A v \in Members : \A j : j # NoCode /\ Others(v, j) => Others(v, j)'
      BY <2>2, <3>2
    <3>5. ~collided' => ~collided /\ \A d \in ReferralCalls : ReferralAt(d, "agent") => CodeOf(d) # k
      BY <2>2 DEF Awaited
    <3>6. ~collided' => k \notin DOMAIN agents BY <2>1, <3>5
    <3>7. told[u] = {} BY <2>1, <2>2
    <3>8. \A d \in ReferralCalls : ReferralAt(d, "register")' => ReferralAt(d, "register") /\ referralCall'[d] = referralCall[d]
      BY <3>1
    <3> HIDE DEF u, k
    <3>9. linked' = linked /\ agents' = agents /\ registered' = registered /\ u \in registered
      BY <2>1, <2>2 DEF u
    <3> QED
      <4>1. \A v \in Members : (linked[v] # NoCode => Others(v, linked[v]))'
        BY <3>4, <3>9
      <4>2. \A d \in ReferralCalls :
              (ReferralAt(d, "register") /\ CodeOf(d) # NoCode => Others(referralCall[d].user, CodeOf(d)))'
        BY <3>4, <3>8
      <4> QED BY <2>1, <2>2, <3>1, <3>2, <3>3, <3>5, <3>6, <3>7, <3>9, <4>1, <4>2
  <2>3. CASE /\ ownCode[u] # NoCode /\ Tell(u, ownCode[u]) /\ ReferralDone(c)
             /\ UNCHANGED <<registered, agents, linked, ownCode, collided>>
    BY <2>1, <2>3 DEF ReferralDone, ReferralGoes, Tell
  <2>4. CASE /\ UNCHANGED <<registered, agents, linked, ownCode, collided, told>>
             /\ \/ ReferralDone(c)
                \/ \E j \in Codes : ~codeTaken(j) /\ ReferralGoes(c, [at |-> "mine", user |-> u, code |-> j])
    BY <2>1, <2>4 DEF ReferralDone, ReferralGoes, codeTaken
  <2> QED BY <1>5, <2>2, <2>3, <2>4 DEF MyCodeSet
<1>6. ASSUME NEW c \in ReferralCalls, NEW k \in Codes, CreateAgent(c, k) PROVE ReferralInv'
  BY <1>6 DEF CreateAgent, ReferralIdle, ReferralGoes, codeTaken
<1>7. ASSUME NEW c \in ReferralCalls, AgentCreated(c) PROVE ReferralInv'
  <2>1. CodeOf(c) \in Codes /\ ReferralAt(c, "agent") /\ ReferralDone(c)
        /\ UNCHANGED <<registered, ownCode, linked, told>>
    BY <1>7 DEF AgentCreated
  <2>2. CASE UNCHANGED <<agents, collided>> BY <2>1, <2>2 DEF ReferralDone, ReferralGoes
  <2>3. CASE /\ DOMAIN agents' = DOMAIN agents \cup {CodeOf(c)}
             /\ collided' = (collided \/ Awaited(CodeOf(c), "mine"))
    <3>1. /\ referralCall'[c] = [at |-> "idle"] /\ DOMAIN referralCall' = ReferralCalls
          /\ \A d \in ReferralCalls : d # c => referralCall'[d] = referralCall[d]
      BY <2>1 DEF ReferralDone, ReferralGoes
    <3>2. CodesTyped' BY <2>1, <2>3, <3>1 DEF Awaited
    <3>3. ~collided' => ~collided /\ \A d \in ReferralCalls : ReferralAt(d, "mine") => CodeOf(d) # CodeOf(c)
      BY <2>3 DEF Awaited
    <3>4. ~collided' => \A u \in Members : ownCode[u] # CodeOf(c) BY <2>1, <3>3
    <3> QED BY <2>1, <2>3, <3>1, <3>2, <3>3, <3>4
  <2> QED BY <1>7, <2>2, <2>3 DEF AgentCreated
<1>8. ASSUME NEW k \in Codes, UpdateAgent(k) PROVE ReferralInv'
  BY <1>8 DEF UpdateAgent
<1>9. ASSUME NEW u \in Members, NEW k \in Codes \cup {NoCode}, Link(u, k) PROVE ReferralInv'
  BY <1>9 DEF Link
<1> HIDE DEF ReferralInv, CodesTyped, CodesOwned, CallTyped, Known, ReferralAt, CodeOf, Others
<1> QED BY <1>1, <1>2, <1>3, <1>4, <1>5, <1>6, <1>7, <1>8, <1>9 DEF ReferralNext

(* referral.service.ts:107 and :137: a player is told one code, no two     *)
(* players have it and nobody brought themselves, however requests         *)
(* overlap; nor does an agent have it, unless it was taken between the     *)
(* check and the write of the other table.                                 *)
THEOREM CodesHaveOneOwner == ReferralInit /\ [][ReferralNext]_referralVars => []OneOwnerPerCode
<1>1. ReferralInv => OneOwnerPerCode
  BY DEF ReferralInv, CodesOwned, OneOwnerPerCode, Others
<1> QED BY ReferralBegins, ReferralGoesOn, <1>1, PTL

-----------------------------------------------------------------------------
(* OneTimeCode: the handlers that hold a code have a guess, or a session,  *)
(* to come, each; whoever holds a code alone found it unused and with      *)
(* guesses left.                                                           *)

Steps == [at : {"idle", "checked", "consumed", "activating"}, code : Nat, typed : Nat]
Rows == [at : Nat, attempts : Nat, consumed : BOOLEAN]
OtpTyped ==
  /\ clock \in Nat /\ codes \in Seq(Rows) /\ Len(codes) <= MaxCodes
  /\ verify \in [Verifiers -> Steps]
  /\ misses \in [1..MaxCodes -> Nat] /\ logins \in [0..MaxCodes -> Nat]
  /\ {met, restarted, barred} \subseteq BOOLEAN
Holding(i) == {c \in Verifiers : verify[c].code = i}
InHand(c) ==
  LET s == verify[c] IN
  /\ s.code \in 0..Len(codes)
  /\ s.at = "idle" => s.code = 0
  /\ s.at = "checked" => s.code # 0
  /\ s.at = "consumed" => s.code # 0
  /\ s.at \in {"consumed", "activating"} /\ s.code # 0 => codes[s.code].consumed
Extra == IF met THEN Cardinality(Verifiers) - 1 ELSE 0
Counted(i) ==
  /\ i \in DOMAIN codes => misses[i] = codes[i].attempts
  /\ i \notin DOMAIN codes => misses[i] = 0
  /\ logins[i] > 0 => i \in DOMAIN codes /\ codes[i].consumed
Bounded(i) ==
  /\ misses[i] + Cardinality(Holding(i)) <= MAX_ATTEMPTS + Extra
  /\ logins[i] + Cardinality(Holding(i)) <= 1 + Extra
(* No handler that passed the check of a block is left once one holds.     *)
StaysBarred == barred => status = "BLOCKED" /\ \A c \in Verifiers : verify[c].at # "activating"
(* This process remembers the codes of the last minute, unless it is new.  *)
Remembered ==
  /\ recent \subseteq DOMAIN codes
  /\ \A i \in DOMAIN codes : codes[i].at <= clock
  /\ ~restarted => \A i \in DOMAIN codes : clock - codes[i].at < REQUEST_WINDOW => i \in recent
SentInTurn == ~restarted => \A t \in 0..clock : Cardinality(Sent(t)) <= MAX_REQUESTS_PER_WINDOW
OtpInv ==
  /\ OtpTyped /\ \A c \in Verifiers : InHand(c)
  /\ \A i \in 1..MaxCodes : Counted(i) /\ Bounded(i)
  /\ StaysBarred /\ Remembered /\ SentInTurn

LEMMA OtpSizes ==
  /\ MAX_ATTEMPTS \in Nat \ {0} /\ MAX_REQUESTS_PER_WINDOW \in Nat \ {0}
  /\ REQUEST_WINDOW \in Nat \ {0} /\ MaxCodes \in Nat \ {0}
BY OtpAssumption
LEMMA CodeRows ==
  ASSUME OtpTyped
  PROVE  /\ Len(codes) \in Nat /\ DOMAIN codes = 1..Len(codes)
         /\ \A i \in DOMAIN codes : /\ i \in 1..MaxCodes /\ codes[i] \in Rows
                                    /\ codes[i].at \in Nat /\ codes[i].attempts \in Nat
<1>1. Len(codes) \in Nat /\ DOMAIN codes = 1..Len(codes) /\ \A i \in DOMAIN codes : codes[i] \in Rows
  BY DEF OtpTyped
<1>2. \A i \in DOMAIN codes : i \in 1..MaxCodes BY <1>1, OtpSizes DEF OtpTyped
<1>3. \A i \in DOMAIN codes : codes[i].at \in Nat /\ codes[i].attempts \in Nat BY <1>1 DEF Rows
<1> QED BY <1>1, <1>2, <1>3

LEMMA RejectedSteps == OtpRejected \in Steps /\ OtpRejected.at = "idle" /\ OtpRejected.code = 0
BY DEF OtpRejected, Steps
LEMMA AnotherGuess ==
  ASSUME NEW row \in Rows, NEW n \in Nat
  PROVE  [row EXCEPT !.attempts = n] = [at |-> row.at, attempts |-> n, consumed |-> row.consumed]
BY DEF Rows

LEMMA HoldersCount ==
  ASSUME OtpTyped
  PROVE  /\ \A i : IsFiniteSet(Holding(i)) /\ Cardinality(Holding(i)) \in 0..Cardinality(Verifiers)
         /\ Cardinality(Verifiers) \in Nat
<1>1. Cardinality(Verifiers) \in Nat BY OtpAssumption, FS_CardinalityType
<1>2. ASSUME NEW i
      PROVE  IsFiniteSet(Holding(i)) /\ Cardinality(Holding(i)) \in 0..Cardinality(Verifiers)
  <2>1. Holding(i) \in SUBSET Verifiers BY DEF Holding
  <2>2. IsFiniteSet(Holding(i)) /\ Cardinality(Holding(i)) <= Cardinality(Verifiers)
    BY <2>1, OtpAssumption, FS_Subset
  <2> QED BY <1>1, <2>2, FS_CardinalityType
<1> QED BY <1>1, <1>2

(* What a step that sends no code and lets no time pass leaves to be shown.*)
SameMinute ==
  /\ clock' = clock /\ Len(codes') = Len(codes) /\ (recent' = recent \/ restarted')
  /\ recent' \subseteq recent
  /\ \A i \in DOMAIN codes : codes'[i].at = codes[i].at
  /\ restarted' = restarted \/ restarted'
LEMMA MoreRoom ==
  ASSUME NEW m \in Nat, NEW h \in Nat, NEW b \in Nat, NEW x \in Int, m + h <= b, x >= 0
  PROVE  m + h <= b + x
OBVIOUS

LEMMA OneCode ==
  ASSUME OtpInv, NEW i \in 1..MaxCodes
  PROVE  /\ misses[i] \in Nat /\ logins[i] \in Nat /\ Counted(i) /\ Bounded(i)
         /\ OtpTyped /\ IsFiniteSet(Holding(i)) /\ Cardinality(Holding(i)) \in Nat /\ Extra \in Int
<1>1. OtpTyped BY DEF OtpInv
<1>2. Extra \in Int BY <1>1, HoldersCount DEF Extra
<1> QED BY <1>1, <1>2, HoldersCount DEF OtpInv, OtpTyped

LEMMA SameMinuteIsFine ==
  ASSUME OtpInv, OtpTyped', SameMinute
  PROVE  Remembered' /\ SentInTurn'
<1>1. DOMAIN codes' = DOMAIN codes
  <2>1. DOMAIN codes = 1..Len(codes) /\ DOMAIN codes' = 1..Len(codes') BY DEF OtpInv, OtpTyped
  <2> QED BY <2>1 DEF SameMinute
<1>2. Remembered' BY <1>1 DEF OtpInv, Remembered, SameMinute
<1>3. \A t \in 0..clock : Sent(t)' = Sent(t) BY <1>1 DEF Sent, SameMinute
<1>4. SentInTurn' BY <1>3 DEF OtpInv, SentInTurn, SameMinute
<1> QED BY <1>2, <1>4

LEMMA RequestKeepsOtp ==
  ASSUME OtpInv, RequestCode
  PROVE  OtpInv'
<1> DEFINE n == Len(codes) + 1
<1> USE DEF OtpInv, OtpTyped
<1>1. /\ n \in 1..MaxCodes /\ codes' = Append(codes, [at |-> clock, attempts |-> 0, consumed |-> FALSE])
      /\ UNCHANGED <<clock, status, verify, misses, logins, met, restarted, barred>>
  BY CodeRows, OtpSizes DEF RequestCode
<1>2. /\ Len(codes') = n /\ DOMAIN codes = 1..Len(codes) /\ DOMAIN codes' = 1..n
      /\ \A i \in DOMAIN codes : codes'[i] = codes[i]
      /\ codes'[n] = [at |-> clock, attempts |-> 0, consumed |-> FALSE]
      /\ codes' \in Seq(Rows)
  BY <1>1 DEF Rows
<1>3. OtpTyped' BY <1>1, <1>2, OtpAssumption
<1>4. \A c \in Verifiers : InHand(c)' BY <1>1, <1>2 DEF InHand, Steps
<1>5. \A i \in 1..MaxCodes : Counted(i)'
  <2>1. \A i \in 1..MaxCodes : Counted(i) OBVIOUS
  <2> QED BY <1>1, <1>2, <2>1 DEF Counted
<1>6. \A i \in 1..MaxCodes : Bounded(i)'
  <2>1. \A i \in 1..MaxCodes : Holding(i)' = Holding(i) BY <1>1 DEF Holding
  <2> QED BY <1>1, <2>1 DEF Bounded, Extra
<1>7. StaysBarred' BY <1>1 DEF StaysBarred
<1>8. /\ recent' = Fresh \cup {n} /\ Fresh \subseteq recent
      /\ Cardinality(Fresh) < MAX_REQUESTS_PER_WINDOW
  BY DEF RequestCode, Fresh
<1>9. Remembered'
  BY <1>1, <1>2, <1>8 DEF Remembered, Fresh, Rows
<1>10. SentInTurn'
  <2> SUFFICES ASSUME ~restarted, NEW t \in 0..clock
               PROVE  Cardinality(Sent(t)') <= MAX_REQUESTS_PER_WINDOW
    BY <1>1 DEF SentInTurn
  <2>1. CASE n \in Sent(t)'
    <3>1. clock \in t .. t + REQUEST_WINDOW - 1 BY <1>1, <1>2, <2>1 DEF Sent
    <3>2. Sent(t)' \subseteq Fresh \cup {n}
      <4> SUFFICES ASSUME NEW i \in DOMAIN codes, codes[i].at \in t .. t + REQUEST_WINDOW - 1
                   PROVE  i \in Fresh
        BY <1>1, <1>2 DEF Sent
      <4>1. codes[i].at \in Nat /\ REQUEST_WINDOW \in Nat BY CodeRows, OtpSizes
      <4>2. clock - codes[i].at < REQUEST_WINDOW BY <3>1, <4>1
      <4> QED BY <4>2 DEF Remembered, Fresh
    <3>3. IsFiniteSet(Fresh)
      <4>1. Fresh \in SUBSET (1..Len(codes)) BY <1>2, <1>8 DEF Remembered
      <4>2. IsFiniteSet(1..Len(codes))
        <5>1. Len(codes) \in Nat BY CodeRows
        <5> HIDE DEF OtpInv, OtpTyped
        <5> QED BY <5>1, FS_Interval
      <4> QED BY <4>1, <4>2, FS_Subset
    <3>4. IsFiniteSet(Fresh \cup {n}) /\ Cardinality(Fresh \cup {n}) <= Cardinality(Fresh) + 1
          /\ Cardinality(Fresh) \in Nat
      <4>1. Cardinality(Fresh) \in Nat BY <3>3, FS_CardinalityType
      <4> HIDE DEF n
      <4>2. /\ IsFiniteSet(Fresh \cup {n})
            /\ Cardinality(Fresh \cup {n}) = IF n \in Fresh THEN Cardinality(Fresh)
                                             ELSE Cardinality(Fresh) + 1
        BY <3>3, FS_AddElement
      <4> QED BY <4>1, <4>2
    <3>5. Cardinality(Sent(t)') <= Cardinality(Fresh \cup {n}) /\ IsFiniteSet(Sent(t)')
      BY <3>2, <3>4, FS_Subset
    <3> QED BY <1>8, <3>4, <3>5, FS_CardinalityType, OtpAssumption
  <2>2. CASE n \notin Sent(t)'
    <3>1. Sent(t)' = Sent(t) BY <1>1, <1>2, <2>2 DEF Sent
    <3> QED BY <3>1 DEF SentInTurn
  <2> QED BY <2>1, <2>2
<1> QED BY <1>3, <1>4, <1>5, <1>6, <1>7, <1>9, <1>10

LEMMA CheckKeepsOtp ==
  ASSUME OtpInv, NEW c \in Verifiers, NEW i \in DOMAIN codes, NEW typed \in 0..Len(codes),
         CheckCode(c, i, typed)
  PROVE  OtpInv'
<1> USE DEF OtpInv, OtpTyped
<1>1. /\ verify' = [verify EXCEPT ![c] = [at |-> "checked", code |-> i, typed |-> typed]]
      /\ met' = (met \/ \E d \in Verifiers : verify[d].code = i)
      /\ UNCHANGED <<clock, codes, recent, status, misses, logins, restarted, barred>>
  BY DEF CheckCode, Verifying
<1>2. DOMAIN codes = 1..Len(codes) /\ i \in 1..MaxCodes /\ codes[i] \in Rows BY CodeRows
<1>3. verify[c].at = "idle" /\ ~codes[i].consumed /\ codes[i].attempts < MAX_ATTEMPTS
  BY <1>2, OtpAssumption DEF CheckCode, Challenge, Exhausted, Rows
<1>4. OtpTyped' BY <1>1, <1>2 DEF Steps
<1>5. \A d \in Verifiers : InHand(d)'
  <2>1. \A d \in Verifiers : InHand(d) OBVIOUS
  <2> QED BY <1>1, <1>2, <2>1 DEF InHand
<1>6. \A j \in 1..MaxCodes : Counted(j)' BY <1>1 DEF Counted
<1>7. \A j \in 1..MaxCodes : Bounded(j)'
  <2> SUFFICES ASSUME NEW j \in 1..MaxCodes PROVE Bounded(j)'
    OBVIOUS
  <2>1. verify[c].code = 0 BY <1>3 DEF InHand
  <2>2. Extra \in Int /\ Extra' \in Int /\ (Extra' # Extra => ~met /\ met')
    BY <1>1, HoldersCount DEF Extra
  <2>3. misses[j] \in Nat /\ logins[j] \in Nat /\ Bounded(j) /\ Counted(j) OBVIOUS
  <2>4. Cardinality(Holding(j)') \in 0..Cardinality(Verifiers) /\ Cardinality(Holding(j)) \in Nat
    <3>1. /\ Cardinality(Holding(j)) \in 0..Cardinality(Verifiers)
          /\ Cardinality(Verifiers) \in Nat
      BY HoldersCount
    <3>2. Holding(j)' \in SUBSET Verifiers BY DEF Holding
    <3>3. IsFiniteSet(Holding(j)') /\ Cardinality(Holding(j)') <= Cardinality(Verifiers)
      BY <3>2, OtpAssumption, FS_Subset
    <3>4. Cardinality(Holding(j)') \in Nat BY <3>3, FS_CardinalityType
    <3> QED BY <3>1, <3>3, <3>4
  <2>0. OtpTyped /\ met \in BOOLEAN OBVIOUS
  <2> HIDE DEF OtpInv, OtpTyped
  <2>5. CASE j # i
    <3>1. Holding(j)' = Holding(j) BY <1>1, <2>1, <2>5 DEF Holding
    <3>2. CASE Extra' = Extra BY <1>1, <2>3, <3>1, <3>2 DEF Bounded
    <3>3. CASE Extra' # Extra
      <4>1. Extra = 0 /\ Extra' >= 0
        <5>1. Verifiers # {} OBVIOUS
        <5>2. Cardinality(Verifiers) # 0 BY <5>1, OtpAssumption, FS_EmptySet
        <5> QED BY <2>0, <2>2, <3>3, <5>2, HoldersCount DEF Extra
      <4>2. /\ misses[j] + Cardinality(Holding(j)) <= MAX_ATTEMPTS
            /\ logins[j] + Cardinality(Holding(j)) <= 1
        BY <2>3, <4>1, OtpSizes DEF Bounded
      <4>3. /\ misses'[j] + Cardinality(Holding(j)') <= MAX_ATTEMPTS
            /\ logins'[j] + Cardinality(Holding(j)') <= 1
        BY <1>1, <3>1, <4>2
      <4>4. misses'[j] \in Nat /\ logins'[j] \in Nat /\ Cardinality(Holding(j)') \in Nat
        BY <1>1, <2>3, <2>4, <3>1
      <4>5. Extra' \in Int BY <2>2
      <4>6. /\ misses'[j] + Cardinality(Holding(j)') <= MAX_ATTEMPTS + Extra'
            /\ logins'[j] + Cardinality(Holding(j)') <= 1 + Extra'
        <5>1. 1 \in Nat /\ MAX_ATTEMPTS \in Nat BY OtpSizes
        <5> QED BY <4>1, <4>3, <4>4, <4>5, <5>1, MoreRoom
      <4> QED BY <4>6 DEF Bounded
    <3> QED BY <3>2, <3>3
  <2>6. CASE j = i
    <3>1. misses[i] <= MAX_ATTEMPTS - 1 /\ logins[i] = 0
      <4>1. misses[i] = codes[i].attempts /\ ~(logins[i] > 0) BY <1>3, <2>3, <2>6 DEF Counted
      <4> QED BY <1>3, <2>3, <2>6, <4>1, OtpSizes
    <3>2. CASE met'
      <4>1. Extra' = Cardinality(Verifiers) - 1 BY <3>2 DEF Extra
      <4>2. /\ Cardinality(Verifiers) \in Nat /\ MAX_ATTEMPTS \in Nat
            /\ Cardinality(Holding(i)') \in 0..Cardinality(Verifiers)
            /\ misses'[i] = misses[i] /\ logins'[i] = logins[i] /\ misses[i] \in Nat
        BY <1>1, <2>0, <2>3, <2>4, <2>6, HoldersCount, OtpSizes
      <4>3. /\ misses[i] + Cardinality(Holding(i)') <= MAX_ATTEMPTS + (Cardinality(Verifiers) - 1)
            /\ 0 + Cardinality(Holding(i)') <= 1 + (Cardinality(Verifiers) - 1)
        BY <3>1, <4>2
      <4> QED BY <2>6, <3>1, <4>1, <4>2, <4>3 DEF Bounded
    <3>3. CASE ~met'
      <4>1. Extra' = 0 BY <3>3 DEF Extra
      <4>2. Holding(i)' = {c} BY <1>1, <2>0, <3>3 DEF Holding, OtpTyped
      <4>3. Cardinality(Holding(i)') = 1 BY <4>2, FS_Singleton
      <4> QED BY <1>1, <2>3, <2>6, <3>1, <4>1, <4>3, OtpAssumption DEF Bounded
    <3> QED BY <3>2, <3>3
  <2> QED BY <2>5, <2>6
<1>8. StaysBarred' BY <1>1 DEF StaysBarred
<1>9. Remembered' /\ SentInTurn' BY <1>1, <1>4, SameMinuteIsFine DEF SameMinute
<1> QED BY <1>4, <1>5, <1>6, <1>7, <1>8, <1>9

(* A handler that is done with its code makes room for a guess or a        *)
(* session more.                                                           *)
LEMMA DoneMakesRoom ==
  ASSUME OtpInv, OtpTyped', NEW c \in Verifiers, verify' = [verify EXCEPT ![c] = OtpRejected],
         UNCHANGED met, NEW i \in 1..MaxCodes,
         misses'[i] = misses[i] \/ (verify[c].code = i /\ misses'[i] = misses[i] + 1),
         logins'[i] = logins[i] \/ (verify[c].code = i /\ logins'[i] = logins[i] + 1)
  PROVE  Bounded(i)'
<1> USE DEF OtpInv, OtpTyped
<1>1. Holding(i)' = Holding(i) \ {c} BY DEF Holding, OtpRejected
<1>2. IsFiniteSet(Holding(i)) /\ Cardinality(Holding(i)) \in Nat BY HoldersCount
<1>3. Cardinality(Holding(i)') = IF c \in Holding(i) THEN Cardinality(Holding(i)) - 1
                                 ELSE Cardinality(Holding(i))
  <2> DEFINE H == Holding(i)
  <2>1. IsFiniteSet(H) BY <1>2
  <2> HIDE DEF H, OtpInv, OtpTyped
  <2>2. Cardinality(H \ {c}) = IF c \in H THEN Cardinality(H) - 1 ELSE Cardinality(H)
    BY <2>1, FS_RemoveElement
  <2> QED BY <1>1, <2>2 DEF H
<1>4. c \in Holding(i) <=> verify[c].code = i BY DEF Holding
<1>5. misses[i] \in Nat /\ logins[i] \in Nat /\ Bounded(i) BY OneCode
<1>6. Extra' = Extra /\ Extra \in Int BY HoldersCount DEF Extra
<1>7. MAX_ATTEMPTS \in Nat BY OtpAssumption
<1> HIDE DEF OtpInv, OtpTyped
<1> QED BY <1>2, <1>3, <1>4, <1>5, <1>6, <1>7 DEF Bounded

(* ... and neither a handler that keeps its code.                          *)
LEMMA HeldAsBefore ==
  ASSUME OtpInv, \A c \in Verifiers : verify'[c].code = verify[c].code, UNCHANGED met,
         NEW i \in 1..MaxCodes, misses'[i] = misses[i], logins'[i] = logins[i]
  PROVE  Bounded(i)'
<1>1. Holding(i)' = Holding(i) BY DEF Holding
<1>2. Bounded(i) BY DEF OtpInv
<1> QED BY <1>1, <1>2 DEF Bounded, Extra

LEMMA GuessKeepsOtp ==
  ASSUME OtpInv, NEW c \in Verifiers, Miss(c) \/ Consume(c)
  PROVE  OtpInv'
<1> DEFINE i == verify[c].code
<1> USE DEF OtpInv, OtpTyped
<1>1. verify[c] \in Steps /\ verify[c].at = "checked" /\ InHand(c) BY DEF Miss, Consume
<1>2. i \in DOMAIN codes /\ i \in 1..MaxCodes /\ codes[i] \in Rows
  BY <1>1, CodeRows DEF InHand, Steps
<1>3. UNCHANGED <<clock, recent, status, logins, met, restarted, barred>> BY DEF Miss, Consume
<1>4. PICK row \in Rows :
        /\ codes' = [codes EXCEPT ![i] = row] /\ row.at = codes[i].at
        /\ \/ /\ Miss(c) /\ row.attempts = codes[i].attempts + 1 /\ row.consumed = codes[i].consumed
              /\ misses' = [misses EXCEPT ![i] = misses[i] + 1]
              /\ verify' = [verify EXCEPT ![c] = OtpRejected]
           \/ /\ Consume(c) /\ row.attempts = codes[i].attempts /\ row.consumed
              /\ misses' = misses
              /\ verify' = [verify EXCEPT ![c] = [at |-> "consumed", code |-> i, typed |-> verify[c].typed]]
  <2>1. CASE Miss(c)
    <3>1. /\ codes' = [codes EXCEPT ![i] = [codes[i] EXCEPT !.attempts = codes[i].attempts + 1]]
          /\ misses' = [misses EXCEPT ![i] = misses[i] + 1]
          /\ verify' = [verify EXCEPT ![c] = OtpRejected]
      BY <1>2, <2>1 DEF Miss, Verifying
    <3>2. [codes[i] EXCEPT !.attempts = codes[i].attempts + 1]
            = [at |-> codes[i].at, attempts |-> codes[i].attempts + 1, consumed |-> codes[i].consumed]
      BY <1>2, CodeRows, AnotherGuess
    <3>3. codes[i].at \in Nat /\ codes[i].attempts + 1 \in Nat /\ codes[i].consumed \in BOOLEAN
      BY <1>2 DEF Rows
    <3> QED BY <2>1, <3>1, <3>2, <3>3 DEF Rows
  <2>2. CASE Consume(c)
    <3>1. /\ codes' = [codes EXCEPT ![i] = [codes[i] EXCEPT !.consumed = TRUE]]
          /\ misses' = misses
          /\ verify' = [verify EXCEPT ![c] = [verify[c] EXCEPT !.at = "consumed"]]
      BY <1>2, <2>2 DEF Consume, Verifying
    <3>2. [codes[i] EXCEPT !.consumed = TRUE] \in Rows BY <1>2 DEF Rows
    <3>3. [verify[c] EXCEPT !.at = "consumed"] = [at |-> "consumed", code |-> i, typed |-> verify[c].typed]
      BY <1>1 DEF Steps
    <3> QED BY <1>2, <2>2, <3>1, <3>2, <3>3 DEF Rows
  <2> QED BY <2>1, <2>2
<1>5. /\ Len(codes') = Len(codes) /\ DOMAIN codes' = DOMAIN codes
      /\ \A j \in DOMAIN codes : j # i => codes'[j] = codes[j]
      /\ codes'[i] = row /\ codes' \in Seq(Rows)
  BY <1>2, <1>4
<1>6. /\ \A d \in Verifiers : d # c => verify'[d] = verify[d]
      /\ verify'[c].code \in {0, i} /\ verify'[c].at \in {"idle", "consumed"}
      /\ verify'[c].at = "idle" => verify'[c].code = 0
      /\ verify'[c].at = "consumed" => verify'[c].code = i /\ row.consumed
      /\ verify' \in [Verifiers -> Steps]
  <2>1. [at |-> "consumed", code |-> i, typed |-> verify[c].typed] \in Steps BY <1>1 DEF Steps
  <2>2. CASE verify' = [verify EXCEPT ![c] = OtpRejected] BY <2>2, RejectedSteps
  <2>3. CASE /\ verify' = [verify EXCEPT ![c] = [at |-> "consumed", code |-> i, typed |-> verify[c].typed]]
             /\ row.consumed
    <3> HIDE DEF i
    <3> QED BY <2>1, <2>3
  <2> QED BY <1>4, <2>2, <2>3
<1>7. OtpTyped'
  <2>1. codes' \in Seq(Rows) /\ Len(codes') <= MaxCodes BY <1>2, <1>5
  <2>2. {met', restarted', barred'} \subseteq BOOLEAN /\ clock' \in Nat BY <1>2, <1>3, <1>4
  <2>3. logins' = logins /\ misses[i] + 1 \in Nat
        /\ misses' \in {misses, [misses EXCEPT ![i] = misses[i] + 1]}
    BY <1>2, <1>3, <1>4
  <2> HIDE DEF i
  <2>4. misses' \in [1..MaxCodes -> Nat] BY <1>2, <2>3
  <2> QED BY <1>6, <2>1, <2>2, <2>3, <2>4
<1>8. \A j \in DOMAIN codes : codes[j].consumed => codes'[j].consumed
  BY <1>2, <1>4, <1>5
<1>9. \A d \in Verifiers : InHand(d)'
  <2> SUFFICES ASSUME NEW d \in Verifiers PROVE InHand(d)'
    OBVIOUS
  <2>1. CASE d = c
    <3>1. i \in 0..Len(codes) /\ i # 0 BY <1>2, CodeRows
    <3> HIDE DEF i
    <3> QED BY <1>2, <1>5, <1>6, <2>1, <3>1 DEF InHand
  <2>2. CASE d # c
    <3>1. InHand(d) /\ verify'[d] = verify[d] /\ verify[d] \in Steps BY <1>6, <2>2
    <3>2. verify[d].code # 0 => verify[d].code \in DOMAIN codes BY <3>1, CodeRows DEF InHand, Steps
    <3> QED BY <1>5, <1>8, <3>1, <3>2 DEF InHand
  <2> QED BY <2>1, <2>2
<1>10. \A j \in 1..MaxCodes : Counted(j)'
  <2> SUFFICES ASSUME NEW j \in 1..MaxCodes PROVE Counted(j)'
    OBVIOUS
  <2>1. Counted(j) OBVIOUS
  <2>2. CASE j = i
    <3>1. misses'[i] = row.attempts
      <4>1. misses[i] = codes[i].attempts /\ codes[i].attempts \in Nat
        BY <1>2, <2>1, <2>2, CodeRows DEF Counted
      <4>2. CASE misses' = misses /\ row.attempts = codes[i].attempts BY <4>1, <4>2
      <4>3. CASE misses' = [misses EXCEPT ![i] = misses[i] + 1] /\ row.attempts = codes[i].attempts + 1
        <5>1. misses'[i] = misses[i] + 1 BY <1>2, <4>3
        <5> QED BY <4>1, <4>3, <5>1
      <4> QED BY <1>4, <4>2, <4>3
    <3> HIDE DEF i
    <3> QED BY <1>2, <1>3, <1>5, <1>8, <2>1, <2>2, <3>1 DEF Counted
  <2>3. CASE j # i
    <3>1. misses'[j] = misses[j] BY <1>4, <2>3
    <3> QED BY <1>3, <1>5, <2>1, <2>3, <3>1 DEF Counted
  <2> QED BY <2>2, <2>3
<1>11. \A j \in 1..MaxCodes : Bounded(j)'
  <2> SUFFICES ASSUME NEW j \in 1..MaxCodes PROVE Bounded(j)'
    OBVIOUS
  <2>1. CASE verify' = [verify EXCEPT ![c] = OtpRejected] /\ misses' = [misses EXCEPT ![i] = misses[i] + 1]
    <3>1. misses'[j] = misses[j] \/ (i = j /\ misses'[j] = misses[j] + 1) BY <2>1
    <3> QED BY <1>3, <1>7, <2>1, <3>1, DoneMakesRoom
  <2>2. CASE /\ verify' = [verify EXCEPT ![c] = [at |-> "consumed", code |-> i, typed |-> verify[c].typed]]
             /\ misses' = misses
    <3>1. \A d \in Verifiers : verify'[d].code = verify[d].code BY <2>2
    <3> QED BY <1>3, <2>2, <3>1, HeldAsBefore
  <2> QED BY <1>4, <2>1, <2>2
<1>12. StaysBarred' BY <1>3, <1>6 DEF StaysBarred
<1>13. SameMinute
  <2>1. \A j \in DOMAIN codes : codes'[j].at = codes[j].at BY <1>2, <1>4, <1>5
  <2> QED BY <1>3, <1>5, <2>1 DEF SameMinute
<1> QED BY <1>7, <1>9, <1>10, <1>11, <1>12, <1>13, SameMinuteIsFine

(* Letting somebody in, or not.                                            *)
LEMMA LoginKeepsOtp ==
  ASSUME OtpInv, NEW c \in Verifiers, Admit(c) \/ loginWithPassword(c) \/ Activate(c)
  PROVE  OtpInv'
<1> DEFINE i == verify[c].code
<1> USE DEF OtpInv, OtpTyped
<1>1. verify[c] \in Steps /\ InHand(c) /\ i \in 0..MaxCodes /\ (i # 0 => i \in DOMAIN codes)
      /\ (i # 0 => codes[i].consumed)
  <2>1. verify[c] \in Steps /\ InHand(c) OBVIOUS
  <2>2. i \in 0..MaxCodes /\ (i # 0 => i \in DOMAIN codes) BY <2>1, CodeRows, OtpSizes DEF InHand, Steps
  <2>3. i # 0 => codes[i].consumed
    BY <2>1 DEF InHand, Admit, loginWithPassword, Activate
  <2> QED BY <2>1, <2>2, <2>3
<1>2. UNCHANGED <<clock, codes, recent, misses, met, restarted, barred>>
  BY DEF Admit, loginWithPassword, Admitted, Activate
<1>3. \/ /\ verify' = [verify EXCEPT ![c] = OtpRejected]
         /\ \/ Opens(i) /\ status' = "ACTIVE" /\ (status = "ACTIVE" \/ verify[c].at = "activating")
            \/ UNCHANGED logins /\ UNCHANGED status
      \/ /\ verify' = [verify EXCEPT ![c] = [at |-> "activating", code |-> i, typed |-> i]]
         /\ UNCHANGED <<logins, status>> /\ status # "BLOCKED"
  BY <1>1 DEF Admit, loginWithPassword, Admitted, Activate, Verifying, InHand
<1>4. /\ \A d \in Verifiers : d # c => verify'[d] = verify[d]
      /\ \/ verify'[c] = OtpRejected
         \/ verify'[c] = [at |-> "activating", code |-> i, typed |-> i] /\ status # "BLOCKED"
      /\ verify' \in [Verifiers -> Steps]
  <2>1. [at |-> "activating", code |-> i, typed |-> i] \in Steps
    <3>1. i \in Nat BY <1>1 DEF Steps
    <3> HIDE DEF i
    <3> QED BY <3>1 DEF Steps
  <2>2. CASE verify' = [verify EXCEPT ![c] = OtpRejected] BY <2>2, RejectedSteps
  <2>3. CASE verify' = [verify EXCEPT ![c] = [at |-> "activating", code |-> i, typed |-> i]]
             /\ status # "BLOCKED"
    <3> HIDE DEF i
    <3> QED BY <2>1, <2>3
  <2> QED BY <1>3, <2>2, <2>3
<1>5. /\ \A j \in 1..MaxCodes : logins'[j] = logins[j] \/ (i = j /\ logins'[j] = logins[j] + 1)
      /\ logins' \in [0..MaxCodes -> Nat]
  <2>1. CASE UNCHANGED logins BY <2>1
  <2>2. CASE Opens(i)
    <3>1. logins' = [logins EXCEPT ![i] = IF i = 0 THEN 0 ELSE logins[i] + 1] BY <2>2 DEF Opens
    <3>2. i \in 0..MaxCodes /\ logins[i] \in Nat BY <1>1
    <3> HIDE DEF i
    <3> QED BY <3>1, <3>2
  <2> QED BY <1>3, <2>1, <2>2
<1>6. OtpTyped' BY <1>2, <1>4, <1>5
<1>7. \A d \in Verifiers : InHand(d)'
  <2> SUFFICES ASSUME NEW d \in Verifiers PROVE InHand(d)'
    OBVIOUS
  <2>1. i \in 0..Len(codes) /\ 0 \in 0..Len(codes) BY <1>1, CodeRows DEF InHand
  <2>2. InHand(d) OBVIOUS
  <2> HIDE DEF i
  <2> QED BY <1>1, <1>2, <1>4, <2>1, <2>2 DEF InHand, OtpRejected
<1>8. \A j \in 1..MaxCodes : Counted(j)'
  <2> SUFFICES ASSUME NEW j \in 1..MaxCodes PROVE Counted(j)'
    OBVIOUS
  <2>1. Counted(j) /\ logins[j] \in Nat OBVIOUS
  <2> HIDE DEF i
  <2> QED BY <1>1, <1>2, <1>5, <2>1 DEF Counted
<1>9. \A j \in 1..MaxCodes : Bounded(j)'
  <2> SUFFICES ASSUME NEW j \in 1..MaxCodes PROVE Bounded(j)'
    OBVIOUS
  <2>1. CASE verify' = [verify EXCEPT ![c] = OtpRejected] BY <1>2, <1>5, <1>6, <2>1, DoneMakesRoom
  <2>2. CASE UNCHANGED logins /\ verify' = [verify EXCEPT ![c] = [at |-> "activating", code |-> i, typed |-> i]]
    <3>1. \A d \in Verifiers : verify'[d].code = verify[d].code BY <2>2
    <3> QED BY <1>2, <2>2, <3>1, HeldAsBefore
  <2> QED BY <1>3, <2>1, <2>2
<1>10. StaysBarred'
  <2>1. CASE status' = status BY <1>2, <1>4, <2>1 DEF StaysBarred, OtpRejected
  <2>2. CASE status = "ACTIVE" \/ verify[c].at = "activating" BY <1>2, <2>2 DEF StaysBarred
  <2> QED BY <1>3, <2>1, <2>2
<1>11. SameMinute BY <1>2 DEF SameMinute
<1> QED BY <1>6, <1>7, <1>8, <1>9, <1>10, <1>11, SameMinuteIsFine

LEMMA PanelKeepsOtp ==
  ASSUME OtpInv, Blocked \/ BlockExpires \/ Unblocked \/ OtpRestart \/ MinutePasses
  PROVE  OtpInv'
<1> USE DEF OtpInv, OtpTyped
<1>1. CASE Blocked \/ BlockExpires \/ Unblocked
  <2>1. UNCHANGED <<clock, codes, recent, verify, misses, logins, met, restarted>>
    BY <1>1 DEF Blocked, BlockExpires, Unblocked
  <2>2. StaysBarred' /\ barred' \in BOOLEAN
    BY <1>1, <2>1 DEF Blocked, BlockExpires, Unblocked, StaysBarred
  <2>3. OtpTyped' BY <2>1, <2>2
  <2>4. SameMinute BY <2>1 DEF SameMinute
  <2>5. \A d \in Verifiers : InHand(d)' BY <2>1 DEF InHand
  <2>6. \A j \in 1..MaxCodes : Counted(j)' BY <2>1 DEF Counted
  <2>7. \A j \in 1..MaxCodes : Bounded(j)' BY <2>1, HeldAsBefore
  <2> QED BY <2>2, <2>3, <2>4, <2>5, <2>6, <2>7, SameMinuteIsFine
<1>2. CASE OtpRestart
  <2>1. /\ recent' = {} /\ verify' = [c \in Verifiers |-> OtpRejected] /\ restarted' = TRUE
        /\ UNCHANGED <<clock, codes, status, misses, logins, met, barred>>
    BY <1>2 DEF OtpRestart
  <2>2. OtpTyped' BY <2>1 DEF OtpRejected, Steps
  <2>3. SameMinute BY <2>1 DEF SameMinute
  <2>4. \A d \in Verifiers : InHand(d)' BY <2>1, CodeRows DEF InHand, OtpRejected
  <2>5. \A j \in 1..MaxCodes : Counted(j)' BY <2>1 DEF Counted
  <2>6. \A j \in 1..MaxCodes : Bounded(j)'
    <3> SUFFICES ASSUME NEW j \in 1..MaxCodes PROVE Bounded(j)'
      OBVIOUS
    <3>1. Holding(j)' = {} BY <2>1 DEF Holding, OtpRejected
    <3>2. Cardinality(Holding(j)') = 0 BY <3>1, FS_EmptySet
    <3>3. Bounded(j) /\ misses[j] \in Nat /\ logins[j] \in Nat /\ Cardinality(Holding(j)) \in Nat
      BY HoldersCount
    <3>4. Extra' = Extra /\ Extra \in Int BY <2>1, HoldersCount DEF Extra
    <3> HIDE DEF OtpInv, OtpTyped
    <3>5. misses[j] <= MAX_ATTEMPTS + Extra /\ logins[j] <= 1 + Extra
      BY <3>3, <3>4, OtpSizes DEF Bounded
    <3>6. misses'[j] = misses[j] /\ logins'[j] = logins[j] BY <2>1
    <3> QED BY <3>2, <3>3, <3>4, <3>5, <3>6, OtpSizes DEF Bounded
  <2>7. StaysBarred' BY <2>1 DEF StaysBarred, OtpRejected
  <2> QED BY <2>2, <2>3, <2>4, <2>5, <2>6, <2>7, SameMinuteIsFine
<1>3. CASE MinutePasses
  <2>1. clock' = clock + 1 /\ UNCHANGED <<codes, recent, status, verify, misses, logins, met, restarted, barred>>
    BY <1>3 DEF MinutePasses
  <2>2. OtpTyped' BY <2>1
  <2>3. \A d \in Verifiers : InHand(d)' BY <2>1 DEF InHand
  <2>4. \A j \in 1..MaxCodes : Counted(j)' BY <2>1 DEF Counted
  <2>5. \A j \in 1..MaxCodes : Bounded(j)' BY <2>1, HeldAsBefore
  <2>6. StaysBarred' BY <2>1 DEF StaysBarred
  <2>7. Remembered'
    <3>1. ASSUME NEW i \in DOMAIN codes
          PROVE  /\ codes[i].at <= clock + 1
                 /\ ~restarted /\ clock + 1 - codes[i].at < REQUEST_WINDOW => i \in recent
      <4>1. codes[i].at \in Nat /\ REQUEST_WINDOW \in Nat /\ codes[i].at <= clock
        BY CodeRows, OtpSizes DEF Remembered
      <4>2. clock + 1 - codes[i].at < REQUEST_WINDOW => clock - codes[i].at < REQUEST_WINDOW
        BY <4>1
      <4> QED BY <4>1, <4>2 DEF Remembered
    <3>2. recent \subseteq DOMAIN codes BY DEF Remembered
    <3>3. clock' = clock + 1 /\ codes' = codes /\ recent' = recent /\ restarted' = restarted BY <2>1
    <3>4. \A i \in DOMAIN codes' : codes'[i].at <= clock' BY <3>1, <3>3
    <3>5. ~restarted' => \A i \in DOMAIN codes' :
                            clock' - codes'[i].at < REQUEST_WINDOW => i \in recent'
      <4>1. clock \in Nat /\ \A i \in DOMAIN codes : codes[i].at \in Nat BY <3>1, CodeRows
      <4> HIDE DEF OtpInv, OtpTyped
      <4>2. \A i \in DOMAIN codes' : clock' - codes'[i].at = clock + 1 - codes[i].at BY <3>3, <4>1
      <4>3. ~restarted' => ~restarted BY <3>3
      <4>4. DOMAIN codes' = DOMAIN codes /\ recent' = recent BY <3>3
      <4> QED BY <3>1, <4>2, <4>3, <4>4
    <3> QED BY <3>2, <3>3, <3>4, <3>5 DEF Remembered
  <2>8. SentInTurn'
    <3> SUFFICES ASSUME ~restarted, NEW t \in 0..clock + 1
                 PROVE  Cardinality(Sent(t)') <= MAX_REQUESTS_PER_WINDOW
      BY <2>1 DEF SentInTurn
    <3>1. Sent(t)' = Sent(t) BY <2>1 DEF Sent
    <3>2. CASE t \in 0..clock BY <3>1, <3>2 DEF SentInTurn
    <3>3. CASE t = clock + 1
      <4>1. Sent(t) = {}
        <5>1. \A i \in DOMAIN codes : codes[i].at \in Nat /\ codes[i].at < t
          BY <3>3, CodeRows DEF Remembered
        <5>2. \A i \in DOMAIN codes : codes[i].at \notin t .. t + REQUEST_WINDOW - 1 BY <5>1
        <5> QED BY <5>2 DEF Sent
      <4> QED BY <3>1, <4>1, FS_EmptySet, OtpSizes
    <3> QED BY <3>2, <3>3
  <2> QED BY <2>2, <2>3, <2>4, <2>5, <2>6, <2>7, <2>8
<1> QED BY <1>1, <1>2, <1>3

LEMMA OtpBegins == OtpInit => OtpInv
<1> SUFFICES ASSUME OtpInit PROVE OtpInv
  OBVIOUS
<1>1. /\ clock = 0 /\ codes = <<>> /\ recent = {} /\ status = "PENDING"
      /\ verify = [c \in Verifiers |-> OtpRejected]
      /\ misses = [i \in 1..MaxCodes |-> 0] /\ logins = [i \in 0..MaxCodes |-> 0]
      /\ met = FALSE /\ restarted = FALSE /\ barred = FALSE
  BY DEF OtpInit
<1>2. Len(codes) = 0 /\ DOMAIN codes = {} /\ codes \in Seq(Rows) BY <1>1
<1>3. OtpTyped
  <2>1. verify \in [Verifiers -> Steps] BY <1>1, RejectedSteps
  <2>2. misses \in [1..MaxCodes -> Nat] /\ logins \in [0..MaxCodes -> Nat] BY <1>1
  <2> QED BY <1>1, <1>2, <2>1, <2>2, OtpSizes DEF OtpTyped
<1>4. \A c \in Verifiers : InHand(c) BY <1>1, <1>2 DEF InHand, OtpRejected
<1>5. \A i \in 1..MaxCodes : Counted(i) BY <1>1, <1>2 DEF Counted
<1>6. \A i \in 1..MaxCodes : Bounded(i)
  <2> SUFFICES ASSUME NEW i \in 1..MaxCodes PROVE Bounded(i)
    OBVIOUS
  <2>1. Holding(i) = {} BY <1>1 DEF Holding, OtpRejected
  <2>2. Cardinality(Holding(i)) = 0 BY <2>1, FS_EmptySet
  <2> QED BY <1>1, <2>2, OtpSizes DEF Bounded, Extra
<1>7. StaysBarred /\ Remembered BY <1>1, <1>2 DEF StaysBarred, Remembered
<1>8. SentInTurn
  <2>1. \A t \in 0..clock : Sent(t) = {} BY <1>2 DEF Sent
  <2> QED BY <2>1, FS_EmptySet, OtpSizes DEF SentInTurn
<1> QED BY <1>3, <1>4, <1>5, <1>6, <1>7, <1>8 DEF OtpInv

LEMMA OtpGoesOn == OtpInv /\ [OtpNext]_otpVars => OtpInv'
<1> SUFFICES ASSUME OtpInv, [OtpNext]_otpVars PROVE OtpInv'
  OBVIOUS
<1>1. CASE OtpNext
  BY <1>1, RequestKeepsOtp, CheckKeepsOtp, GuessKeepsOtp, LoginKeepsOtp, PanelKeepsOtp DEF OtpNext
<1>2. CASE UNCHANGED otpVars
  <2>1. UNCHANGED <<clock, codes, recent, status, verify, misses, logins, met, restarted, barred>>
    BY <1>2 DEF otpVars
  <2>2. \A i : Holding(i)' = Holding(i) /\ Sent(i)' = Sent(i) BY <2>1 DEF Holding, Sent
  <2> QED BY <2>1, <2>2 DEF OtpInv, OtpTyped, InHand, Counted, Bounded, Extra, StaysBarred,
                            Remembered, SentInTurn
<1> QED BY <1>1, <1>2

(* otp.service.ts:15: guessing stops after MAX_ATTEMPTS and a code opens   *)
(* one session, up to one of each more per further handler that checked it *)
(* at the same time; no minute sends more than its share of codes before   *)
(* a restart; and no login lifts a block it did not overtake.              *)
THEOREM GuessingStops == OtpInit /\ [][OtpNext]_otpVars => []GuessesRunOut
<1>1. OtpInv => GuessesRunOut
  <2> SUFFICES ASSUME OtpInv PROVE GuessesRunOut
    OBVIOUS
  <2>1. ASSUME NEW i \in 1..MaxCodes
        PROVE  misses[i] <= MAX_ATTEMPTS + Extra /\ logins[i] <= 1 + Extra
    <3>1. misses[i] \in Nat /\ logins[i] \in Nat /\ Bounded(i) BY <2>1 DEF OtpInv, OtpTyped
    <3>2. Cardinality(Holding(i)) \in Nat /\ Extra \in Int BY HoldersCount DEF OtpInv, Extra
    <3> QED BY <3>1, <3>2, OtpSizes DEF Bounded
  <2> QED BY <2>1 DEF OtpInv, StaysBarred, SentInTurn, Extra, GuessesRunOut
<1> QED BY OtpBegins, OtpGoesOn, <1>1, PTL

-----------------------------------------------------------------------------
(* PromoEvent: what was posted is nothing, one prize, or one prize at the  *)
(* base rate and the difference; the one call that posted a prize, and no  *)
(* other, has it in hand until the row says so.                            *)

Award(w, cents) == [ref |-> "prize", to |-> w, cents |-> cents]
Difference(w) == [ref |-> "topup", to |-> w, cents |-> Subscriber - Base]
ToppedUp(w) == spent = {Award(w, Base), Difference(w)} /\ Base < Subscriber
Postings ==
  \/ spent = {}
  \/ \E w \in Champions : \/ \E cents \in {Base, Subscriber} : spent = {Award(w, cents)}
                          \/ ToppedUp(w)
Awarding == {"award", "post", "row"}
EventTyped ==
  /\ event \in [rehearsal : BOOLEAN, status : {"SCHEDULED", "PAID", "CANCELLED"},
               winner : Champions \cup {"none"}, subscribed : BOOLEAN, paid : {0, Base, Subscriber},
               started : BOOLEAN]
  /\ DOMAIN promoCall = PromoCalls /\ late \in BOOLEAN /\ restarts \in Nat
  /\ bracket \in {"none", "unmarked", "playing", "over"}
  /\ saving \subseteq Champions \X {1, 2} /\ DOMAIN placements = Champions
Payable(c) ==
  LET s == promoCall[c] IN
  /\ s.at \in Awarding => s \in [at : Awarding, to : Champions, subscribed : BOOLEAN]
                          /\ ~event.rehearsal
  /\ PromoAt(c, "rehearsed") => s.to \in Champions /\ event.rehearsal
  /\ PromoAt(c, "row") => spent = {Award(s.to, Prize(c))} /\ event.paid = 0
  /\ PromoAt(c, "difference") => /\ s.to \in Champions /\ s.cents = Subscriber - Base
                                 /\ spent = {Award(s.to, Base)} \/ ToppedUp(s.to)
                                 /\ Base < Subscriber /\ event.paid # 0
  /\ PromoAt(c, "raise") => event.paid # 0 /\ ToppedUp(event.winner)
RowIsBacked ==
  /\ event.rehearsal => spent = {}
  /\ event.status = "PAID" /\ ~event.rehearsal => event.paid # 0
  /\ event.subscribed => event.paid = Subscriber
  /\ event.paid # 0 => \/ spent = {Award(event.winner, event.paid)}
                       \/ ToppedUp(event.winner)
  /\ event.paid # 0 /\ ~event.subscribed => event.paid = Base
RowIsWritten ==
  /\ \A c \in PromoCalls : PromoAt(c, "post") => event.status = "SCHEDULED" \/ spent # {}
  /\ spent # {} => \/ event.status = "SCHEDULED" /\ \E c \in PromoCalls : PromoAt(c, "row")
                   \/ event.status = "PAID"
  /\ \A w \in Champions : ToppedUp(w) => event.subscribed \/ \E c \in PromoCalls : PromoAt(c, "raise")

(* Until a restart there is one bracket, with one champion.                *)
Place(u, w) == IF u = w THEN 1 ELSE 2
Ends(c) == promoCall[c].at \in Awarding \cup {"rehearsed"}
OneBracket ==
  \/ /\ bracket # "over" /\ saving = {} /\ event.winner = "none"
     /\ \A u \in Champions : placements[u] = 0
     /\ \A c \in PromoCalls : ~Ends(c)
  \/ /\ bracket = "over"
     /\ \E w \in Champions :
          /\ \A u \in Champions : <<u, Place(u, w)>> \in saving \/ placements[u] = Place(u, w)
          /\ \A p \in saving : p[2] = Place(p[1], w)
          /\ \A u \in Champions : placements[u] \in {0, Place(u, w)}
          /\ event.winner \in {"none", w}
          /\ \A c \in PromoCalls : Ends(c) => promoCall[c].to = w
PromoInv ==
  /\ EventTyped /\ Postings /\ RowIsBacked
  /\ \A c \in PromoCalls : Payable(c)
  /\ \A c, d \in PromoCalls : PromoAt(c, "row") /\ PromoAt(d, "row") => c = d
  /\ restarts = 0 /\ ~late => RowIsWritten
  /\ restarts = 0 => OneBracket

LEMMA Prizes == Base \in Nat \ {0} /\ Subscriber \in Nat /\ Base <= Subscriber /\ MaxRestarts \in Nat
BY PromoAssumption

LEMMA PrizeIsPosted ==
  ASSUME Postings
  PROVE  /\ Posted("prize") <=> spent # {}
         /\ \A w \in Champions : ToppedUp(w) => Posted("topup")
         /\ Posted("topup") => \E w \in Champions : ToppedUp(w)
<1>1. \A w, x : Award(w, x).ref = "prize" /\ Difference(w).ref = "topup" BY DEF Award, Difference
<1>2. CASE spent = {} BY <1>2 DEF Posted, ToppedUp
<1>3. ASSUME NEW w \in Champions, NEW cents \in {Base, Subscriber}, spent = {Award(w, cents)}
      PROVE  Posted("prize") /\ ~Posted("topup") /\ \A v \in Champions : ~ToppedUp(v)
  <2>1. \A p \in spent : p.ref = "prize" BY <1>1, <1>3
  <2> QED BY <1>1, <1>3, <2>1 DEF Posted, ToppedUp
<1>4. ASSUME NEW w \in Champions, ToppedUp(w) PROVE Posted("prize") /\ Posted("topup")
  BY <1>1, <1>4 DEF Posted, ToppedUp
<1> QED BY <1>2, <1>3, <1>4 DEF Postings

LEMMA PrizeOnly ==
  ASSUME NEW w, NEW x
  PROVE  /\ spent = {Award(w, x)} => \A v \in Champions : ~ToppedUp(v)
         /\ spent' = {Award(w, x)} => \A v \in Champions : ~ToppedUp(v)'
<1>1. \A v : Difference(v).ref # Award(w, x).ref BY DEF Award, Difference
<1> QED BY <1>1 DEF ToppedUp

LEMMA GoingOn ==
  ASSUME NEW s \in [at : Awarding, to : Champions, subscribed : BOOLEAN], NEW where \in Awarding
  PROVE  /\ [s EXCEPT !.at = where] = [at |-> where, to |-> s.to, subscribed |-> s.subscribed]
         /\ [s EXCEPT !.at = where] \in [at : Awarding, to : Champions, subscribed : BOOLEAN]
BY DEF Awarding

(* A prize posted tells who was paid, and all that was posted went there.  *)
LEMMA PaidToOne ==
  ASSUME Postings
  PROVE  /\ \A w, x : Award(w, x) \in spent => w \in Champions /\ \A p \in spent : p.to = w
         /\ \A p, q \in spent : p.to = q.to /\ (p.ref = q.ref => p = q)
<1>1. \A w, x : /\ Award(w, x).ref = "prize" /\ Difference(w).ref = "topup"
                /\ Award(w, x).to = w /\ Difference(w).to = w
  BY DEF Award, Difference
<1>2. CASE spent = {} BY <1>2
<1>3. ASSUME NEW v \in Champions, NEW cents \in {Base, Subscriber}, spent = {Award(v, cents)}
      PROVE  /\ \A w, x : Award(w, x) \in spent => w \in Champions /\ \A p \in spent : p.to = w
             /\ \A p, q \in spent : p.to = q.to /\ (p.ref = q.ref => p = q)
  <2>1. \A p \in spent : p.to = v /\ p = Award(v, cents) BY <1>1, <1>3
  <2>2. ASSUME NEW w, NEW x, Award(w, x) \in spent PROVE w = v BY <1>1, <2>1, <2>2
  <2> QED BY <2>1, <2>2
<1>4. ASSUME NEW v \in Champions, ToppedUp(v)
      PROVE  /\ \A w, x : Award(w, x) \in spent => w \in Champions /\ \A p \in spent : p.to = w
             /\ \A p, q \in spent : p.to = q.to /\ (p.ref = q.ref => p = q)
  <2>1. \A p \in spent : p.to = v /\ p \in {Award(v, Base), Difference(v)} BY <1>1, <1>4 DEF ToppedUp
  <2>2. ASSUME NEW w, NEW x, Award(w, x) \in spent PROVE w = v BY <1>1, <2>1, <2>2
  <2> QED BY <1>1, <2>1, <2>2
<1> QED BY <1>2, <1>3, <1>4 DEF Postings

(* The row names who was paid.                                             *)
LEMMA WinnerIsPaid ==
  ASSUME Postings, RowIsBacked, event.paid # 0
  PROVE  event.winner \in Champions /\ spent # {} /\ \A p \in spent : p.to = event.winner
<1>1. Award(event.winner, event.paid) \in spent \/ Award(event.winner, Base) \in spent
  BY DEF RowIsBacked, ToppedUp
<1> QED BY <1>1, PaidToOne

(* What the postings come to.                                              *)
LEMMA SpentIsSum == Spent = SumFunctionOnSet([p \in spent |-> p.cents], spent)
BY DEF Spent, MapThenSumSet, SumFunctionOnSet, FoldFunctionOnSet, MapThenFoldSet
LEMMA SpentIs ==
  /\ spent = {} => Spent = 0
  /\ \A w \in Champions, x \in Int : spent = {Award(w, x)} => Spent = x
  /\ \A w \in Champions : ToppedUp(w) => Spent = Subscriber
<1> DEFINE f == [p \in spent |-> p.cents]
<1>1. spent = {} => Spent = 0 BY SpentIsSum, SumEmpty
<1>2. ASSUME NEW p \in spent, p.cents \in Int
      PROVE  SumFunctionOnSet(f, {p}) = p.cents
  <2>1. IsFiniteSet({}) BY FS_EmptySet
  <2>2. \A q \in {} \cup {p} : f[q] \in Int BY <1>2
  <2>3. f[p] = p.cents OBVIOUS
  <2> HIDE DEF f
  <2>4. SumFunctionOnSet(f, {} \cup {p}) = f[p] + SumFunctionOnSet(f, {}) BY <2>1, <2>2, SumIn
  <2>5. SumFunctionOnSet(f, {}) = 0 /\ {} \cup {p} = {p} BY SumEmpty
  <2> QED BY <1>2, <2>3, <2>4, <2>5
<1>3. ASSUME NEW w \in Champions, NEW x \in Int, spent = {Award(w, x)}
      PROVE  Spent = x
  <2>1. Award(w, x) \in spent /\ Award(w, x).cents = x BY <1>3 DEF Award
  <2> QED BY <1>2, <1>3, <2>1, SpentIsSum
<1>4. ASSUME NEW w \in Champions, ToppedUp(w) PROVE Spent = Subscriber
  <2> DEFINE a == Award(w, Base)
             d == Difference(w)
  <2>1. /\ spent = {a, d} /\ a # d /\ a.cents = Base /\ d.cents = Subscriber - Base
        /\ Base \in Int /\ Subscriber \in Int
    BY <1>4, Prizes DEF ToppedUp, Award, Difference
  <2> HIDE DEF a, d
  <2>2. SumFunctionOnSet(f, {a}) = Base BY <1>2, <2>1
  <2>3. IsFiniteSet({a}) /\ d \notin {a} /\ {a} \cup {d} = spent BY <2>1, FS_Singleton
  <2>4. \A q \in {a} \cup {d} : f[q] \in Int BY <2>1
  <2>5. f[d] = Subscriber - Base BY <2>1
  <2> HIDE DEF f
  <2>6. SumFunctionOnSet(f, {a} \cup {d}) = f[d] + SumFunctionOnSet(f, {a}) BY <2>3, <2>4, SumIn
  <2> QED BY <2>1, <2>2, <2>3, <2>5, <2>6, SpentIsSum DEF f
<1> QED BY <1>1, <1>3, <1>4

LEMMA PromoBegins == PromoInit => PromoInv
<1> SUFFICES ASSUME PromoInit PROVE PromoInv
  OBVIOUS
<1> USE DEF PromoInit
<1>1. EventTyped BY DEF EventTyped
<1>2. Postings /\ RowIsBacked BY DEF Postings, RowIsBacked
<1>3. \A c \in PromoCalls : promoCall[c].at = "idle" OBVIOUS
<1>4. \A c \in PromoCalls : Payable(c) BY <1>3 DEF Payable, Awarding, PromoAt
<1>5. OneBracket BY <1>3 DEF OneBracket, Ends, Awarding
<1>6. RowIsWritten BY <1>3, Prizes DEF RowIsWritten, PromoAt, ToppedUp
<1> QED BY <1>1, <1>2, <1>3, <1>4, <1>5, <1>6 DEF PromoInv, PromoAt

Only(c) == DOMAIN promoCall' = PromoCalls /\ \A d \in PromoCalls : d # c => promoCall'[d] = promoCall[d]

(* What a call has in hand stays payable while another goes on.            *)
LEMMA PayableStays ==
  ASSUME NEW d \in PromoCalls, Payable(d), promoCall'[d] = promoCall[d], spent' = spent,
         event'.rehearsal = event.rehearsal,
         \/ event'.paid = event.paid /\ event'.winner = event.winner
         \/ ~PromoAt(d, "row") /\ event'.paid # 0 /\ (PromoAt(d, "raise") => event'.winner = event.winner)
  PROVE  Payable(d)'
BY DEF Payable, PromoAt, Prize, ToppedUp

(* A call that goes on without writing anything.                           *)
LEMMA ReadingKeepsPromo ==
  ASSUME PromoInv, NEW c \in PromoCalls, Only(c), UNCHANGED <<event, spent, bracket, classified, restarts, late>>,
         Payable(c)', promoCall[c].at \notin {"row", "raise"}, promoCall'[c].at # "row",
         promoCall'[c].at = "post" => event.status = "SCHEDULED" \/ spent # {},
         Ends(c)' => Ends(c) /\ promoCall'[c].to = promoCall[c].to
  PROVE  PromoInv'
<1> USE DEF PromoInv, classified, Only
<1>1. EventTyped' /\ Postings' /\ RowIsBacked' BY DEF EventTyped, Postings, ToppedUp, RowIsBacked
<1>2. \A d \in PromoCalls : Payable(d)' BY PayableStays
<1>3. \A d, e \in PromoCalls : PromoAt(d, "row")' /\ PromoAt(e, "row")' => d = e BY DEF PromoAt
<1>4. RowIsWritten => RowIsWritten' BY DEF RowIsWritten, PromoAt, ToppedUp
<1>5. OneBracket => OneBracket' BY DEF OneBracket, Ends
<1> QED BY <1>1, <1>2, <1>3, <1>4, <1>5

LEMMA AwardKeepsPromo ==
  ASSUME PromoInv, NEW c \in PromoCalls, AwardRead(c) \/ AwardPosted(c) \/ AwardRecorded(c)
  PROVE  PromoInv'
<1> USE Prizes DEF PromoInv, PromoAt
<1>1. Only(c) /\ UNCHANGED <<bracket, restarts, late, saving, placements>>
  BY DEF AwardRead, AwardPosted, AwardRecorded, PromoGoes, PromoDone, classified, EventTyped, Only
<1>2. Payable(c) OBVIOUS
<1>3. CASE AwardRead(c)
  <2>1. UNCHANGED <<event, spent>> /\ promoCall[c].at = "award" BY <1>3 DEF AwardRead
  <2>2. \/ promoCall'[c].at = "idle"
        \/ /\ event.status = "SCHEDULED" /\ promoCall'[c].at = "post"
           /\ promoCall'[c] = [promoCall[c] EXCEPT !.at = "post"]
    <3>1. promoCall[c] \in [at : Awarding, to : Champions, subscribed : BOOLEAN] /\ "post" \in Awarding
      BY <1>2, <2>1 DEF Payable, Awarding
    <3>2. [promoCall[c] EXCEPT !.at = "post"].at = "post" BY <3>1, GoingOn
    <3>3. CASE PromoDone(c) BY <3>3 DEF PromoDone, PromoGoes, EventTyped
    <3>4. CASE event.status = "SCHEDULED" /\ PromoGoes(c, [promoCall[c] EXCEPT !.at = "post"])
      BY <3>2, <3>4 DEF PromoGoes, EventTyped
    <3> QED BY <1>3, <3>3, <3>4 DEF AwardRead
  <2>3. promoCall[c] \in [at : Awarding, to : Champions, subscribed : BOOLEAN] /\ ~event.rehearsal
    BY <1>2, <2>1 DEF Payable, Awarding
  <2>4. promoCall'[c].at = "post" => /\ promoCall'[c] \in [at : Awarding, to : Champions, subscribed : BOOLEAN]
                                     /\ promoCall'[c].to = promoCall[c].to
    BY <2>2, <2>3, GoingOn DEF Awarding
  <2>5. Payable(c)' BY <2>1, <2>2, <2>3, <2>4 DEF Payable, Awarding
  <2> QED BY <1>1, <2>1, <2>2, <2>4, <2>5, ReadingKeepsPromo DEF Ends, Awarding, classified
<1>4. CASE AwardPosted(c) /\ Posted("prize")
  <2>1. UNCHANGED <<event, spent>> /\ promoCall[c].at = "post" /\ promoCall'[c].at = "idle"
    BY <1>4 DEF AwardPosted, PromoGoes, PromoDone, EventTyped
  <2>2. Payable(c)' BY <2>1 DEF Payable, Awarding
  <2> QED BY <1>1, <2>1, <2>2, ReadingKeepsPromo DEF Ends, Awarding, classified
<1>5. CASE AwardPosted(c) /\ ~Posted("prize")
  <2> DEFINE w == promoCall[c].to
  <2>1. event' = event /\ promoCall[c].at = "post" /\ spent = {}
    BY <1>5, PrizeIsPosted DEF AwardPosted
  <2>2. w \in Champions /\ Prize(c) \in {Base, Subscriber} /\ ~event.rehearsal
        /\ promoCall[c] \in [at : Awarding, to : Champions, subscribed : BOOLEAN]
    BY <1>2, <2>1 DEF Payable, Awarding, Prize
  <2>3. spent' = {Award(w, Prize(c))} /\ promoCall'[c].at = "row"
        /\ promoCall'[c].to = w /\ Prize(c)' = Prize(c)
        /\ promoCall'[c] \in [at : Awarding, to : Champions, subscribed : BOOLEAN]
    <3>1. /\ spent' = spent \cup {[ref |-> "prize", to |-> w, cents |-> Prize(c)]}
          /\ promoCall'[c] = [promoCall[c] EXCEPT !.at = "row"]
      BY <1>5, <2>1 DEF AwardPosted, PromoGoes, EventTyped
    <3>2. /\ promoCall'[c] = [at |-> "row", to |-> w, subscribed |-> promoCall[c].subscribed]
          /\ promoCall'[c] \in [at : Awarding, to : Champions, subscribed : BOOLEAN]
      BY <2>2, <3>1, GoingOn DEF Awarding
    <3> QED BY <2>1, <3>1, <3>2 DEF Prize, Award
  <2>4. \A v \in Champions : ~ToppedUp(v) /\ ~ToppedUp(v)'
    BY <2>1, <2>3, PrizeOnly DEF ToppedUp
  <2>5. event.paid = 0 BY <2>1 DEF RowIsBacked, ToppedUp
  <2>6. \A d \in PromoCalls : promoCall[d].at \notin {"row", "difference", "raise"}
    <3>1. \A d \in PromoCalls : Payable(d) OBVIOUS
    <3> QED BY <2>1, <2>5, <3>1 DEF Payable
  <2>7. EventTyped' BY <1>1, <2>1 DEF EventTyped, Only
  <2>8. Postings' /\ RowIsBacked' BY <2>1, <2>2, <2>3, <2>5 DEF Postings, RowIsBacked
  <2>9. \A d \in PromoCalls : Payable(d)'
    <3>1. \A d \in PromoCalls : Payable(d) OBVIOUS
    <3> HIDE DEF w
    <3> QED BY <1>1, <2>1, <2>2, <2>3, <2>5, <2>6, <3>1 DEF Payable, Only, Awarding
  <2>10. \A d, e \in PromoCalls : PromoAt(d, "row")' /\ PromoAt(e, "row")' => d = e
    BY <1>1, <2>6 DEF Only
  <2>11. RowIsWritten => RowIsWritten'
    BY <1>1, <2>1, <2>3, <2>4 DEF RowIsWritten, Only
  <2>12. OneBracket => OneBracket'
    <3> HIDE DEF w
    <3> QED BY <1>1, <2>1, <2>3 DEF OneBracket, Ends, Awarding, Only, w
  <2> QED BY <1>1, <2>7, <2>8, <2>9, <2>10, <2>11, <2>12
<1>6. CASE AwardRecorded(c)
  <2> DEFINE w == promoCall[c].to
  <2>1. spent' = spent /\ promoCall[c].at = "row" /\ promoCall'[c].at = "idle"
    BY <1>6 DEF AwardRecorded, PromoDone, PromoGoes, EventTyped
  <2>2. /\ w \in Champions /\ promoCall[c].subscribed \in BOOLEAN /\ ~event.rehearsal
        /\ Prize(c) \in {Base, Subscriber} /\ spent = {Award(w, Prize(c))} /\ event.paid = 0
        /\ (promoCall[c].subscribed => Prize(c) = Subscriber) /\ (~promoCall[c].subscribed => Prize(c) = Base)
    BY <1>2, <2>1 DEF Payable, Awarding, Prize
  <2>3. \/ event.status # "SCHEDULED" /\ event' = event
        \/ /\ event.status = "SCHEDULED" /\ event'.status = "PAID" /\ event'.winner = w
           /\ event'.subscribed = promoCall[c].subscribed /\ event'.paid = Prize(c)
           /\ event'.rehearsal = event.rehearsal
    BY <1>6 DEF AwardRecorded, EventTyped
  <2>4. EventTyped'
    <3>1. CASE event' = event BY <1>1, <3>1 DEF EventTyped, Only
    <3>2. CASE event' = [event EXCEPT !.status = "PAID", !.winner = w,
                                 !.subscribed = promoCall[c].subscribed, !.paid = Prize(c)]
      <4> HIDE DEF w
      <4> QED BY <1>1, <2>2, <3>2 DEF EventTyped, Only
    <3> QED BY <1>6, <3>1, <3>2 DEF AwardRecorded
  <2> HIDE DEF w
  <2>5. Postings' BY <2>1 DEF Postings, ToppedUp
  <2>6. RowIsBacked' BY <2>1, <2>2, <2>3 DEF RowIsBacked, ToppedUp
  <2>7. \A d \in PromoCalls : d # c => ~PromoAt(d, "row") BY <2>1
  <2>8. \A d \in PromoCalls : Payable(d)'
    <3> SUFFICES ASSUME NEW d \in PromoCalls PROVE Payable(d)'
      OBVIOUS
    <3>1. CASE d = c BY <2>1, <3>1 DEF Payable, Awarding
    <3>2. CASE d # c
      <4>1. Payable(d) /\ ~PromoAt(d, "raise") BY <2>2 DEF Payable
      <4> QED BY <1>1, <2>1, <2>2, <2>3, <2>7, <3>2, <4>1, PayableStays DEF Only
    <3> QED BY <3>1, <3>2
  <2>9. \A d, e \in PromoCalls : PromoAt(d, "row")' /\ PromoAt(e, "row")' => d = e
    BY <1>1, <2>1, <2>7 DEF Only
  <2>10. RowIsWritten => RowIsWritten'
    <3>1. event.status # "PAID" BY <2>2 DEF RowIsBacked
    <3>2. spent' # {} BY <2>1, <2>2
    <3>3. \A v \in Champions : ~ToppedUp(v)'
      BY <2>1, <2>2, PrizeOnly
    <3>4. RowIsWritten => event'.status = "PAID" BY <2>2, <2>3, <3>1 DEF RowIsWritten
    <3> QED BY <3>2, <3>3, <3>4 DEF RowIsWritten
  <2>11. OneBracket => OneBracket'
    BY <1>1, <2>1, <2>3 DEF OneBracket, Ends, Awarding, Only, w
  <2> QED BY <1>1, <2>4, <2>5, <2>6, <2>8, <2>9, <2>10, <2>11
<1> QED BY <1>3, <1>4, <1>5, <1>6

LEMMA TopUpKeepsPromo ==
  ASSUME PromoInv, NEW c \in PromoCalls, TopUp(c) \/ TopUpPosted(c) \/ TopUpRecorded(c)
  PROVE  PromoInv'
<1> USE Prizes DEF PromoInv, PromoAt
<1>1. Only(c) /\ UNCHANGED <<bracket, restarts, late, saving, placements>>
  BY DEF TopUp, TopUpPosted, TopUpRecorded, PromoGoes, PromoDone, classified, EventTyped, Only
<1>2. Payable(c) OBVIOUS
<1>3. event.winner \in Champions \cup {"none"} /\ event.paid \in {0, Base, Subscriber} BY DEF EventTyped
<1>4. CASE TopUp(c)
  <2> DEFINE w == event.winner
  <2>1. /\ event.status = "PAID" /\ ~event.rehearsal /\ ~event.subscribed /\ event.paid < Subscriber
        /\ UNCHANGED <<event, spent>> /\ promoCall[c].at = "idle"
        /\ promoCall'[c] = [at |-> "difference", to |-> w, cents |-> Subscriber - event.paid]
    BY <1>4 DEF TopUp, PromoIdle, PromoGoes, EventTyped
  <2>2. event.paid = Base /\ event.paid # 0 /\ Base < Subscriber BY <2>1 DEF RowIsBacked
  <2>3. w \in Champions /\ (spent = {Award(w, Base)} \/ ToppedUp(w))
    <3>1. spent = {Award(w, Base)} \/ ToppedUp(w) BY <2>2 DEF RowIsBacked
    <3> QED BY <2>2, <3>1, WinnerIsPaid
  <2> HIDE DEF w
  <2>4. Payable(c)' BY <2>1, <2>2, <2>3 DEF Payable, Awarding, ToppedUp
  <2> QED BY <1>1, <2>1, <2>4, ReadingKeepsPromo DEF Ends, Awarding, classified
<1>5. CASE TopUpPosted(c) /\ Posted("topup")
  <2>1. UNCHANGED <<event, spent>> /\ promoCall[c].at = "difference" /\ promoCall'[c].at = "idle"
    BY <1>5 DEF TopUpPosted, PromoGoes, PromoDone, EventTyped
  <2>2. Payable(c)' BY <2>1 DEF Payable, Awarding
  <2> QED BY <1>1, <2>1, <2>2, ReadingKeepsPromo DEF Ends, Awarding, classified
<1>6. CASE TopUpPosted(c) /\ ~Posted("topup")
  <2> PICK w \in Champions : w = promoCall[c].to
    BY <1>2, <1>6 DEF Payable, TopUpPosted
  <2>1. event' = event /\ promoCall[c].at = "difference" /\ promoCall'[c].at = "raise"
        /\ spent' = spent \cup {[ref |-> "topup", to |-> w, cents |-> promoCall[c].cents]}
    BY <1>6 DEF TopUpPosted, PromoGoes, EventTyped
  <2>2. w \in Champions /\ spent = {Award(w, Base)} /\ Base < Subscriber /\ event.paid # 0
        /\ promoCall[c].cents = Subscriber - Base
    BY <1>2, <1>6, <2>1, PrizeIsPosted DEF Payable
  <2>3. spent' = {Award(w, Base), Difference(w)} BY <2>1, <2>2 DEF Difference
  <2>4. ToppedUp(w)' BY <2>2, <2>3 DEF ToppedUp
  <2>5. \A v \in Champions : ~ToppedUp(v) BY <2>2, PrizeOnly
  <2>6. event.winner = w
    <3>1. Award(w, Base) \in spent /\ Award(w, Base).to = w BY <2>2 DEF Award
    <3> QED BY <2>2, <3>1, WinnerIsPaid
  <2>7. EventTyped' BY <1>1, <2>1 DEF EventTyped, Only
  <2>8. Postings' /\ RowIsBacked' BY <2>1, <2>2, <2>4, <2>6 DEF Postings, RowIsBacked
  <2>9. \A d \in PromoCalls : Payable(d)'
    <3> SUFFICES ASSUME NEW d \in PromoCalls PROVE Payable(d)'
      OBVIOUS
    <3>1. Payable(d) OBVIOUS
    <3>2. CASE d = c BY <2>1, <2>2, <2>4, <2>6, <3>2 DEF Payable, Awarding
    <3>3. CASE d # c
      <4>1. promoCall'[d] = promoCall[d] BY <1>1, <3>3 DEF Only
      <4>2. ~PromoAt(d, "row") /\ ~PromoAt(d, "raise")
        BY <2>2, <2>5, <2>6, <3>1 DEF Payable
      <4>3. PromoAt(d, "difference") => promoCall[d].to = w
        <5>1. PromoAt(d, "difference") => spent = {Award(promoCall[d].to, Base)}
          BY <2>5, <3>1 DEF Payable
        <5>2. Award(promoCall[d].to, Base).to = promoCall[d].to /\ Award(w, Base).to = w BY DEF Award
        <5> QED BY <2>2, <5>1, <5>2
      <4> QED BY <2>1, <2>4, <3>1, <4>1, <4>2, <4>3 DEF Payable
    <3> QED BY <3>2, <3>3
  <2>10. \A d, e \in PromoCalls : PromoAt(d, "row")' /\ PromoAt(e, "row")' => d = e
    BY <1>1, <2>1 DEF Only
  <2>11. RowIsWritten => RowIsWritten'
    BY <1>1, <2>1, <2>2, <2>3 DEF RowIsWritten, Only
  <2>12. OneBracket => OneBracket'
    BY <1>1, <2>1 DEF OneBracket, Ends, Awarding, Only
  <2> QED BY <1>1, <2>7, <2>8, <2>9, <2>10, <2>11, <2>12
<1>7. CASE TopUpRecorded(c)
  <2>1. /\ spent' = spent /\ promoCall[c].at = "raise" /\ promoCall'[c].at = "idle"
        /\ event' = [event EXCEPT !.subscribed = TRUE, !.paid = Subscriber]
    BY <1>7 DEF TopUpRecorded, PromoDone, PromoGoes, EventTyped
  <2>2. /\ event'.status = event.status /\ event'.winner = event.winner /\ event'.subscribed
        /\ event'.paid = Subscriber /\ event'.rehearsal = event.rehearsal
        /\ event' \in [rehearsal : BOOLEAN, status : {"SCHEDULED", "PAID", "CANCELLED"},
               winner : Champions \cup {"none"}, subscribed : BOOLEAN, paid : {0, Base, Subscriber},
               started : BOOLEAN]
    BY <2>1 DEF EventTyped
  <2>3. event.paid # 0 /\ ToppedUp(event.winner) /\ Subscriber # 0 BY <1>2, <2>1 DEF Payable
  <2>4. EventTyped' BY <1>1, <2>2 DEF EventTyped, Only
  <2>5. Postings' /\ RowIsBacked' BY <2>1, <2>2, <2>3 DEF Postings, RowIsBacked, ToppedUp
  <2>6. \A d \in PromoCalls : Payable(d)'
    <3> SUFFICES ASSUME NEW d \in PromoCalls PROVE Payable(d)'
      OBVIOUS
    <3>1. Payable(d) OBVIOUS
    <3>2. CASE d = c BY <2>1, <3>2 DEF Payable, Awarding
    <3>3. CASE d # c
      <4>1. ~PromoAt(d, "row") BY <2>3, <3>1 DEF Payable
      <4> QED BY <1>1, <2>1, <2>2, <2>3, <3>1, <3>3, <4>1, PayableStays DEF Only
    <3> QED BY <3>2, <3>3
  <2>7. \A d, e \in PromoCalls : PromoAt(d, "row")' /\ PromoAt(e, "row")' => d = e
    BY <1>1, <2>1 DEF Only
  <2>8. RowIsWritten => RowIsWritten'
    BY <1>1, <2>1, <2>2 DEF RowIsWritten, Only, ToppedUp
  <2>9. OneBracket => OneBracket'
    BY <1>1, <2>1, <2>2 DEF OneBracket, Ends, Awarding, Only
  <2> QED BY <1>1, <2>4, <2>5, <2>6, <2>7, <2>8, <2>9
<1> QED BY <1>4, <1>5, <1>6, <1>7

(* The panel changes the event, or a rehearsal is over.                    *)
LEMMA ChangesKeepPromo ==
  ASSUME PromoInv, NEW c \in PromoCalls, Rescheduled(c) \/ Cancelled(c) \/ finishRehearsal(c)
  PROVE  PromoInv'
<1> USE Prizes DEF PromoInv, PromoAt
<1>1. /\ Only(c) /\ UNCHANGED <<spent, bracket, restarts, saving, placements>>
      /\ promoCall[c].at \in {"reschedule", "cancel", "rehearsed"} /\ promoCall'[c].at = "idle"
  BY DEF Rescheduled, Cancelled, finishRehearsal, PromoGoes, PromoDone, classified, EventTyped, Only
<1>2. /\ event' \in [rehearsal : BOOLEAN, status : {"SCHEDULED", "PAID", "CANCELLED"},
               winner : Champions \cup {"none"}, subscribed : BOOLEAN, paid : {0, Base, Subscriber},
               started : BOOLEAN]
      /\ event'.paid = event.paid /\ event'.subscribed = event.subscribed
      /\ event'.rehearsal = event.rehearsal
      /\ \/ event'.winner = event.winner
         \/ event.rehearsal /\ event'.winner = promoCall[c].to /\ Ends(c)
      /\ event'.status = event.status \/ event'.status = "CANCELLED" \/ event.rehearsal
  <2>1. CASE Rescheduled(c) BY <2>1 DEF Rescheduled, EventTyped
  <2>2. CASE Cancelled(c) BY <2>2 DEF Cancelled, EventTyped
  <2>3. CASE finishRehearsal(c)
    <3>1. promoCall[c].to \in Champions /\ event.rehearsal /\ Ends(c)
      <4>1. Payable(c) OBVIOUS
      <4> QED BY <2>3, <4>1 DEF finishRehearsal, Payable, Ends
    <3> QED BY <2>3, <3>1 DEF finishRehearsal, EventTyped
  <2> QED BY <2>1, <2>2, <2>3
<1>3. \/ event.rehearsal /\ late' = late
      \/ late' = (late \/ Posted("prize") \/ \E d \in PromoCalls : PromoAt(d, "post"))
  <2>1. Payable(c) OBVIOUS
  <2> QED BY <2>1 DEF Rescheduled, Cancelled, finishRehearsal, Payable
<1>4. EventTyped' BY <1>1, <1>2, <1>3 DEF EventTyped, Only
<1>5. event.rehearsal => event.paid = 0 BY DEF RowIsBacked, ToppedUp
<1>6. Postings' BY <1>1 DEF Postings, ToppedUp
<1>7. RowIsBacked' BY <1>1, <1>2, <1>5 DEF RowIsBacked, ToppedUp
<1>8. \A d \in PromoCalls : Payable(d)'
  <2> SUFFICES ASSUME NEW d \in PromoCalls PROVE Payable(d)'
    OBVIOUS
  <2>1. Payable(d) OBVIOUS
  <2>2. CASE d = c BY <1>1, <2>2 DEF Payable, Awarding
  <2>3. CASE d # c
    <3>1. promoCall'[d] = promoCall[d] BY <1>1, <2>3 DEF Only
    <3> QED BY <1>1, <1>2, <1>5, <2>1, <3>1 DEF Payable, Prize, ToppedUp
  <2> QED BY <2>2, <2>3
<1>9. \A d, e \in PromoCalls : PromoAt(d, "row")' /\ PromoAt(e, "row")' => d = e
  BY <1>1 DEF Only
<1>10. ~late' => ~late /\ (RowIsWritten => RowIsWritten')
  <2>1. CASE event.rehearsal
    <3>1. \A d \in PromoCalls : promoCall'[d].at # "post" /\ spent' = {}
      <4>1. \A d \in PromoCalls : Payable(d) OBVIOUS
      <4> QED BY <1>1, <2>1, <4>1 DEF RowIsBacked, Payable, Awarding, Only
    <3> QED BY <1>3, <2>1, <3>1 DEF RowIsWritten, ToppedUp
  <2>2. CASE ~event.rehearsal
    <3>1. ~late' => ~late /\ spent = {} /\ \A d \in PromoCalls : ~PromoAt(d, "post")
      BY <1>3, <2>2, PrizeIsPosted
    <3> QED BY <1>1, <3>1 DEF RowIsWritten, ToppedUp, Only
  <2> QED BY <2>1, <2>2
<1>11. OneBracket => OneBracket'
  BY <1>1, <1>2 DEF OneBracket, Ends, Awarding, Only
<1> QED BY <1>1, <1>4, <1>6, <1>7, <1>8, <1>9, <1>10, <1>11

LEMMA PromoGoesOn == PromoInv /\ [PromoNext]_promoVars => PromoInv'
<1> SUFFICES ASSUME PromoInv, [PromoNext]_promoVars PROVE PromoInv'
  OBVIOUS
<1> USE Prizes DEF PromoInv, PromoAt, PromoIdle, PromoGoes, PromoDone, classified
<1>1. CASE UNCHANGED promoVars
  BY <1>1 DEF promoVars, EventTyped, Postings, RowIsBacked, Payable, RowIsWritten, OneBracket,
              ToppedUp, Ends, Prize
<1>2. CASE StartBracket \/ markStarted
  <2>1. UNCHANGED <<spent, promoCall, restarts, late, saving, placements>>
        /\ bracket # "over" /\ bracket' \in {"unmarked", "playing"}
    BY <1>2 DEF StartBracket, markStarted
  <2>2. /\ event' \in [rehearsal : BOOLEAN, status : {"SCHEDULED", "PAID", "CANCELLED"},
               winner : Champions \cup {"none"}, subscribed : BOOLEAN, paid : {0, Base, Subscriber},
               started : BOOLEAN]
        /\ event'.paid = event.paid /\ event'.subscribed = event.subscribed
        /\ event'.rehearsal = event.rehearsal /\ event'.winner = event.winner
        /\ event'.status = event.status
    BY <1>2 DEF StartBracket, markStarted, EventTyped
  <2>3. EventTyped' BY <2>1, <2>2 DEF EventTyped
  <2>4. Postings' /\ RowIsBacked' BY <2>1, <2>2 DEF Postings, RowIsBacked, ToppedUp
  <2>5. \A d \in PromoCalls : Payable(d)' BY <2>1, <2>2 DEF Payable, Prize, ToppedUp
  <2>6. RowIsWritten => RowIsWritten' BY <2>1, <2>2 DEF RowIsWritten, ToppedUp
  <2>7. OneBracket => OneBracket' BY <2>1, <2>2 DEF OneBracket, Ends
  <2> QED BY <2>1, <2>3, <2>4, <2>5, <2>6, <2>7
<1>3. CASE PromoRestart
  BY <1>3 DEF PromoRestart, EventTyped, Postings, RowIsBacked, Payable, Awarding, ToppedUp, Ends
<1>4. ASSUME NEW p \in saving, recordPlacements(p) PROVE PromoInv'
  BY <1>4 DEF recordPlacements, EventTyped, Postings, RowIsBacked, Payable, RowIsWritten,
              OneBracket, ToppedUp, Ends, Prize
<1>5. ASSUME NEW c \in PromoCalls, NEW w \in Champions, NEW subscribed \in BOOLEAN,
             payPromoPrize(c, w, subscribed)
      PROVE PromoInv'
  BY <1>5 DEF payPromoPrize, EventTyped, Postings, RowIsBacked, Payable, RowIsWritten,
              OneBracket, ToppedUp, Ends, Prize, Place, Awarding
<1>6. ASSUME NEW c \in PromoCalls, NEW to \in {"reschedule", "cancel"}, Change(c, to) PROVE PromoInv'
  BY <1>6 DEF Change, EventTyped, Postings, RowIsBacked, Payable, RowIsWritten,
              OneBracket, ToppedUp, Ends, Prize, Awarding
<1>7. ASSUME NEW c \in PromoCalls, PromoFails(c) PROVE PromoInv'
  BY <1>7 DEF PromoFails, EventTyped, Postings, RowIsBacked, Payable, Awarding, ToppedUp, Ends, Prize
<1> QED BY <1>1, <1>2, <1>3, <1>4, <1>5, <1>6, <1>7, AwardKeepsPromo, TopUpKeepsPromo,
           ChangesKeepPromo DEF PromoNext

(* promo.service.ts:174 and :344: whatever restarts, fails or repeats, the *)
(* company pays one winner, at one rate or at the base rate and the        *)
(* difference, and the row that names a winner names that money.           *)
THEOREM OnePrizeIsPaid == PromoInit /\ [][PromoNext]_promoVars => []OnePrizeOneRate
<1>1. PromoInv => OnePrizeOneRate
  <2> SUFFICES ASSUME PromoInv PROVE OnePrizeOneRate
    OBVIOUS
  <2> USE DEF PromoInv
  <2>1. Spent \in {0, Base, Subscriber} BY SpentIs, Prizes DEF Postings
  <2>2. \A p, q \in spent : p.to = q.to /\ (p.ref = q.ref => p = q) BY PaidToOne
  <2>3. event.paid # 0 =>
          /\ Posted("prize") /\ \A p \in spent : p.to = event.winner
          /\ Spent = event.paid \/ Spent = Subscriber
    BY SpentIs, PrizeIsPosted, WinnerIsPaid, Prizes DEF EventTyped, RowIsBacked
  <2>4. event.paid <= Spent /\ event.paid \in Int
    BY <2>1, <2>3, Prizes DEF EventTyped
  <2>5. ASSUME restarts = 0, ~late, \A c \in PromoCalls : PromoIdle(c)
        PROVE  event.paid = Spent /\ (~event.rehearsal => (event.status = "PAID") = (spent # {}))
    <3>1. RowIsWritten /\ \A c \in PromoCalls : ~PromoAt(c, "row") /\ ~PromoAt(c, "raise")
      BY <2>5 DEF PromoIdle, PromoAt
    <3>2. spent # {} => event.status = "PAID" /\ ~event.rehearsal /\ event.paid # 0
      BY <3>1 DEF RowIsWritten, RowIsBacked
    <3>3. \A w \in Champions : ToppedUp(w) => event.paid = Subscriber
      BY <3>1 DEF RowIsWritten, RowIsBacked
    <3>4. CASE spent = {}
      BY <3>4, SpentIs, WinnerIsPaid DEF RowIsBacked
    <3>5. CASE spent # {}
      BY <3>2, <3>3, <3>5, SpentIs, WinnerIsPaid, Prizes DEF RowIsBacked, EventTyped
    <3> QED BY <3>4, <3>5
  <2>6. restarts = 0 /\ saving = {} /\ event.winner # "none" => placements[event.winner] = 1
    BY DEF OneBracket, Place
  <2> QED BY <2>1, <2>2, <2>3, <2>4, <2>5, <2>6 DEF RowIsBacked, OnePrizeOneRate
<1> QED BY PromoBegins, PromoGoesOn, <1>1, PTL

-----------------------------------------------------------------------------
(* Points: until a call writes over what it has not seen, each change adds *)
(* to the account what it records; the days of the streak are days of the  *)
(* wheel and the day before it is not.  A solo reward under way counts     *)
(* toward the cap already.                                                 *)

Accounts == [free : Int, paid : Int, streak : Nat, lastDay : Nat]
AtPoints(c, where) == pointsCall[c].at = where
Awarded(already) == IF already + SoloAward > SoloCap THEN SoloCap - already ELSE SoloAward
underWay == [c \in PointsCalls |-> IF AtPoints(c, "solo") THEN Awarded(pointsCall[c].already) ELSE 0]
UnderWay == SumFunctionOnSet(underWay, PointsCalls)
Most == SoloCap + (Cardinality(PointsCalls) - 1) * SoloAward

PointsHeld(c) ==
  LET doing == pointsCall[c] IN
  /\ AtPoints(c, "spin") => /\ doing.seen \in Accounts /\ doing.day \in Nat
                            /\ doing.seen.lastDay < doing.day /\ doing.day <= today
  /\ AtPoints(c, "convert") => /\ doing.seen \in Accounts /\ doing.toFree \in BOOLEAN
                               /\ Converted(doing.seen, doing.toFree).free >= 0
                               /\ Converted(doing.seen, doing.toFree).paid >= 0
  /\ AtPoints(c, "solo") => doing.already \in Nat /\ doing.already < SoloCap
PointsTyped ==
  /\ account \in Accounts /\ today \in Nat /\ account.lastDay <= today
  /\ wheelDays \subseteq Nat /\ worth \in Int /\ soloToday \in Nat /\ crossed \in BOOLEAN
  /\ DOMAIN pointsCall = PointsCalls
Balanced == account.free >= 0 /\ account.paid >= 0 /\ Worth(account) = worth
StreakKept ==
  /\ account.lastDay - account.streak \notin wheelDays
  /\ account.lastDay - account.streak + 1 .. account.lastDay \subseteq wheelDays
  /\ \A day \in wheelDays : day <= account.lastDay
PointsInv ==
  /\ PointsTyped /\ \A c \in PointsCalls : PointsHeld(c)
  /\ ~crossed => Balanced /\ StreakKept
  /\ soloToday + UnderWay <= Most

LEMMA PointsSizes ==
  /\ Rate \in Nat \ {0} /\ SoloAward \in Nat /\ SoloCap \in Nat /\ ShareAward \in Nat
  /\ IsFiniteSet(PointsCalls) /\ Cardinality(PointsCalls) \in Nat \ {0} /\ Most \in Int
<1>1. /\ Rate \in Nat \ {0} /\ SoloAward \in Nat /\ SoloCap \in Nat /\ ShareAward \in Nat
      /\ IsFiniteSet(PointsCalls) /\ PointsCalls # {}
  BY PointsAssumption
<1>2. Cardinality(PointsCalls) \in Nat /\ Cardinality(PointsCalls) # 0
  BY <1>1, FS_CardinalityType, FS_EmptySet
<1>3. (Cardinality(PointsCalls) - 1) * SoloAward \in Int BY <1>1, <1>2
<1> QED BY <1>1, <1>2, <1>3 DEF Most

LEMMA OneMore ==
  ASSUME NEW n \in Nat, NEW b \in Nat
  PROVE  n * b \in Int /\ (n + 1) * b = n * b + b
OBVIOUS

(* A sum of n numbers none of which is above b is at most n times b.       *)
LEMMA SumAtMost ==
  ASSUME NEW S, IsFiniteSet(S), NEW f, NEW b \in Nat, \A x \in S : f[x] \in Int /\ f[x] <= b
  PROVE  SumFunctionOnSet(f, S) <= Cardinality(S) * b
<1> DEFINE Good == {s \in SUBSET S : SumFunctionOnSet(f, s) <= Cardinality(s) * b}
<1>1. ASSUME NEW s \in SUBSET S, \A t \in SUBSET s : t # s => t \in Good
      PROVE  s \in Good
  <2>1. CASE s = {} BY <2>1, SumEmpty, FS_EmptySet
  <2>2. CASE s # {}
    <3>1. PICK x \in s : TRUE BY <2>2
    <3> DEFINE t == s \ {x}
    <3>2. IsFiniteSet(s) /\ IsFiniteSet(t) BY FS_Subset
    <3>3. Cardinality(t) \in Nat /\ Cardinality(s) = Cardinality(t) + 1
      BY <3>1, <3>2, FS_RemoveElement, FS_CardinalityType
    <3>4. SumFunctionOnSet(f, s) = f[x] + SumFunctionOnSet(f, t) BY <3>1, <3>2, SumOut
    <3>5. SumFunctionOnSet(f, t) <= Cardinality(t) * b BY <1>1, <3>1
    <3>6. SumFunctionOnSet(f, t) \in Int BY <3>2, SumType
    <3> HIDE DEF t
    <3>7. (Cardinality(t) + 1) * b = Cardinality(t) * b + b /\ Cardinality(t) * b \in Int
      BY <3>3, OneMore
    <3>8. f[x] \in Int /\ f[x] <= b BY <3>1
    <3> QED BY <3>3, <3>4, <3>5, <3>6, <3>7, <3>8
  <2> QED BY <2>1, <2>2
<1> HIDE DEF Good
<1>2. \A s \in SUBSET S : s \in Good BY <1>1, SubsetInduction
<1> QED BY <1>2 DEF Good

(* What one handler may add to the rewards of a day.                       *)
LEMMA AwardFits ==
  ASSUME NEW already \in Nat, already < SoloCap
  PROVE  Awarded(already) \in Nat /\ Awarded(already) <= SoloAward /\ already + Awarded(already) <= SoloCap
BY PointsSizes DEF Awarded

LEMMA UnderWayTyped ==
  ASSUME \A c \in PointsCalls : PointsHeld(c)
  PROVE  \A c \in PointsCalls : underWay[c] \in Nat /\ underWay[c] <= SoloAward /\ underWay[c] <= SoloCap
<1> TAKE c \in PointsCalls
<1>1. CASE AtPoints(c, "solo")
  <2>1. pointsCall[c].already \in Nat /\ pointsCall[c].already < SoloCap BY <1>1 DEF PointsHeld
  <2> QED BY <1>1, <2>1, AwardFits, PointsSizes DEF underWay
<1>2. CASE ~AtPoints(c, "solo") BY <1>2, PointsSizes DEF underWay
<1> QED BY <1>1, <1>2

(* One handler short of the cap leaves room for all the others.            *)
LEMMA OthersFit ==
  ASSUME NEW f, \A c \in PointsCalls : f[c] \in Int /\ f[c] <= SoloAward,
         NEW c \in PointsCalls, NEW s \in Int, s + f[c] <= SoloCap
  PROVE  s + SumFunctionOnSet(f, PointsCalls) <= Most
<1> DEFINE D == PointsCalls \ {c}
           n == Cardinality(D)
<1>1. IsFiniteSet(D) /\ n \in Nat /\ Cardinality(PointsCalls) = n + 1
  <2>1. IsFiniteSet(D) /\ n = Cardinality(PointsCalls) - 1 BY PointsSizes, FS_RemoveElement
  <2>2. n \in Nat BY <2>1, FS_CardinalityType
  <2> HIDE DEF D, n
  <2> QED BY <2>1, <2>2, PointsSizes
<1>2. SumFunctionOnSet(f, PointsCalls) = f[c] + SumFunctionOnSet(f, D) BY PointsSizes, SumOut
<1>3. SumFunctionOnSet(f, D) <= n * SoloAward /\ SumFunctionOnSet(f, D) \in Int
  BY <1>1, PointsSizes, SumAtMost, SumType
<1> HIDE DEF D, n
<1>4. Most = SoloCap + n * SoloAward /\ n * SoloAward \in Int
  <2>1. Cardinality(PointsCalls) - 1 = n BY <1>1
  <2> QED BY <1>1, <2>1, OneMore, PointsSizes DEF Most
<1> QED BY <1>2, <1>3, <1>4, PointsSizes

LEMMA PointsBegins == PointsInit => PointsInv
<1> SUFFICES ASSUME PointsInit PROVE PointsInv
  OBVIOUS
<1>1. /\ account = [free |-> 0, paid |-> 0, streak |-> 0, lastDay |-> 0]
      /\ today = 2 /\ wheelDays = {} /\ soloToday = 0
      /\ pointsCall = [c \in PointsCalls |-> [at |-> "idle"]] /\ worth = 0 /\ crossed = FALSE
  BY DEF PointsInit
<1>2. PointsTyped
  <2>1. account \in Accounts /\ account.lastDay = 0 BY <1>1 DEF Accounts
  <2>2. crossed \in BOOLEAN /\ wheelDays \subseteq Nat BY <1>1
  <2>3. DOMAIN pointsCall = PointsCalls BY <1>1
  <2>4. today \in Nat /\ account.lastDay <= today BY <1>1, <2>1
  <2> QED BY <1>1, <2>1, <2>2, <2>3, <2>4 DEF PointsTyped
<1>3. \A c \in PointsCalls : PointsHeld(c) BY <1>1 DEF PointsHeld, AtPoints
<1>4. Balanced /\ StreakKept BY <1>1, PointsSizes DEF Balanced, StreakKept, Worth
<1>5. soloToday + UnderWay <= Most
  <2>1. PICK c \in PointsCalls : TRUE BY PointsAssumption
  <2>2. \A d \in PointsCalls : underWay[d] \in Nat /\ underWay[d] <= SoloAward /\ underWay[d] <= SoloCap
    BY <1>3, UnderWayTyped
  <2>3. 0 + underWay[c] <= SoloCap BY <2>2
  <2> QED BY <1>1, <2>2, <2>3, OthersFit DEF UnderWay
<1> QED BY <1>2, <1>3, <1>4, <1>5 DEF PointsInv

OneMoves(c) ==
  DOMAIN pointsCall' = PointsCalls /\ \A d \in PointsCalls : d # c => pointsCall'[d] = pointsCall[d]
LEMMA PointsMoves ==
  ASSUME PointsTyped, NEW c \in PointsCalls
  PROVE  /\ Answers(c) => OneMoves(c) /\ pointsCall'[c] = [at |-> "idle"]
         /\ \A doing : Asks(c, doing) => OneMoves(c) /\ pointsCall'[c] = doing
BY DEF Answers, Asks, OneMoves, PointsTyped

(* What the others have in hand depends on the date alone.                 *)
LEMMA OthersHold ==
  ASSUME PointsInv, today' \in Nat, today <= today', NEW c \in PointsCalls, OneMoves(c), PointsHeld(c)'
  PROVE  \A d \in PointsCalls : PointsHeld(d)'
<1> TAKE d \in PointsCalls
<1>1. PointsHeld(d) /\ today \in Nat BY DEF PointsInv, PointsTyped
<1>2. CASE d # c
  <2>1. pointsCall'[d] = pointsCall[d] BY <1>2 DEF OneMoves
  <2> QED BY <1>1, <2>1 DEF PointsHeld, AtPoints
<1> QED BY <1>2

(* A handler that is not at a solo reward adds nothing under way.          *)
LEMMA SameUnderWay ==
  ASSUME PointsInv, NEW c \in PointsCalls, OneMoves(c), \A d \in PointsCalls : PointsHeld(d)'
  PROVE  /\ UnderWay' = UnderWay - underWay[c] + underWay'[c] /\ UnderWay \in Int
         /\ ~AtPoints(c, "solo") => underWay[c] = 0
         /\ ~AtPoints(c, "solo")' => underWay'[c] = 0
         /\ underWay[c] \in Int /\ underWay'[c] \in Int
<1>1. \A d \in PointsCalls : underWay[d] \in Nat BY UnderWayTyped DEF PointsInv
<1>2. \A d \in PointsCalls : underWay'[d] \in Nat
  <2> TAKE d \in PointsCalls
  <2>1. CASE AtPoints(d, "solo")'
    <3>1. pointsCall'[d].already \in Nat /\ pointsCall'[d].already < SoloCap
      BY <2>1 DEF PointsHeld, AtPoints
    <3> QED BY <2>1, <3>1, AwardFits DEF underWay, AtPoints, Awarded
  <2>2. CASE ~AtPoints(d, "solo")' BY <2>2 DEF underWay, AtPoints
  <2> QED BY <2>1, <2>2
<1>3. \A d \in PointsCalls : d # c => underWay'[d] = underWay[d] BY DEF OneMoves, underWay, AtPoints, Awarded
<1>4. UnderWay' = UnderWay - underWay[c] + underWay'[c]
  BY <1>1, <1>2, <1>3, PointsSizes, SumChange DEF UnderWay
<1>5. UnderWay \in Int BY <1>1, PointsSizes, SumType DEF UnderWay
<1> QED BY <1>1, <1>2, <1>4, <1>5 DEF underWay, AtPoints

(* A call that reads.                                                      *)
LEMMA ReadingKeepsPoints ==
  ASSUME PointsInv, NEW c \in PointsCalls, Spin(c) \/ SoloWin(c) \/ \E toFree \in BOOLEAN : Convert(c, toFree)
  PROVE  PointsInv'
<1> USE PointsSizes
<1>1. /\ UNCHANGED <<account, today, wheelDays, soloToday, worth, crossed>>
      /\ AtPoints(c, "idle")
  BY DEF Spin, SoloWin, Convert, PointsIdle, AtPoints
<1>2. OneMoves(c) /\ PointsHeld(c)'
  <2>1. CASE Spin(c)
    <3>1. OneMoves(c) /\ pointsCall'[c] = [at |-> "spin", seen |-> account, day |-> today]
      BY <2>1, PointsMoves DEF Spin, PointsInv
    <3>2. account.lastDay < today BY <2>1 DEF Spin, PointsInv, PointsTyped, Accounts
    <3> QED BY <1>1, <3>1, <3>2 DEF PointsHeld, AtPoints, PointsInv, PointsTyped
  <2>2. CASE SoloWin(c)
    <3>1. OneMoves(c) /\ pointsCall'[c] = [at |-> "solo", already |-> soloToday] /\ soloToday < SoloCap
      BY <2>2, PointsMoves DEF SoloWin, PointsInv
    <3> QED BY <1>1, <3>1 DEF PointsHeld, AtPoints, PointsInv, PointsTyped
  <2>3. ASSUME NEW toFree \in BOOLEAN, Convert(c, toFree) PROVE OneMoves(c) /\ PointsHeld(c)'
    <3>1. OneMoves(c) /\ pointsCall'[c] = [at |-> "convert", seen |-> account, toFree |-> toFree]
      BY <2>3, PointsMoves DEF Convert, PointsInv
    <3>2. Converted(account, toFree).free >= 0 /\ Converted(account, toFree).paid >= 0
      BY <2>3 DEF Convert
    <3> QED BY <1>1, <3>1, <3>2 DEF PointsHeld, AtPoints, PointsInv, PointsTyped, Converted
  <2> QED BY <2>1, <2>2, <2>3
<1>3. \A d \in PointsCalls : PointsHeld(d)'
  BY <1>1, <1>2, OthersHold DEF PointsInv, PointsTyped
<1>4. soloToday' + UnderWay' <= Most
  <2>1. /\ UnderWay' = UnderWay - underWay[c] + underWay'[c] /\ UnderWay \in Int
        /\ underWay[c] = 0 /\ (~AtPoints(c, "solo")' => underWay'[c] = 0)
    BY <1>1, <1>2, <1>3, SameUnderWay DEF AtPoints
  <2>2. CASE ~AtPoints(c, "solo")' BY <1>1, <2>1, <2>2 DEF PointsInv
  <2>3. CASE AtPoints(c, "solo")'
    <3>1. SoloWin(c)
      <4>1. Spin(c) => pointsCall'[c].at = "spin" BY PointsMoves DEF Spin, PointsInv
      <4>2. ASSUME NEW toFree \in BOOLEAN, Convert(c, toFree) PROVE pointsCall'[c].at = "convert"
        BY <4>2, PointsMoves DEF Convert, PointsInv
      <4> QED BY <2>3, <4>1, <4>2 DEF AtPoints
    <3>2. pointsCall'[c] = [at |-> "solo", already |-> soloToday] /\ soloToday < SoloCap
      BY <3>1, PointsMoves DEF SoloWin, PointsInv
    <3>3. underWay'[c] = Awarded(soloToday) BY <3>2 DEF underWay, AtPoints, Awarded
    <3>4. soloToday \in Nat BY DEF PointsInv, PointsTyped
    <3>5. \A d \in PointsCalls : underWay'[d] \in Int /\ underWay'[d] <= SoloAward
      <4> TAKE d \in PointsCalls
      <4>1. CASE d = c BY <3>2, <3>3, <3>4, <4>1, AwardFits
      <4>2. CASE d # c
        <5>1. underWay[d] \in Nat /\ underWay[d] <= SoloAward BY UnderWayTyped DEF PointsInv
        <5> QED BY <1>2, <4>2, <5>1 DEF underWay, AtPoints, Awarded, OneMoves
      <4> QED BY <4>1, <4>2
    <3>6. soloToday + underWay'[c] <= SoloCap BY <3>2, <3>3, <3>4, AwardFits
    <3>7. soloToday + SumFunctionOnSet(underWay', PointsCalls) <= Most BY <3>4, <3>5, <3>6, OthersFit
    <3> QED BY <1>1, <3>7 DEF UnderWay
  <2> QED BY <2>2, <2>3
<1> QED BY <1>1, <1>3, <1>4, <1>2 DEF PointsInv, PointsTyped, Balanced, StreakKept, Worth, Most, OneMoves

(* Two halves of what a call that writes keeps: what is under way with the *)
(* rewards of the day, and the account.                                    *)
LEMMA AnswerKeepsPoints ==
  ASSUME PointsInv, NEW c \in PointsCalls, Answers(c), today' = today,
         soloToday' \in Nat, soloToday' = soloToday + underWay[c],
         account' \in Accounts, account'.lastDay <= today, wheelDays' \subseteq Nat, worth' \in Int,
         crossed' \in BOOLEAN, ~crossed' => (Balanced /\ StreakKept)'
  PROVE  PointsInv'
<1> USE PointsSizes
<1>1. OneMoves(c) /\ pointsCall'[c] = [at |-> "idle"] BY PointsMoves DEF PointsInv
<1>2. PointsHeld(c)' BY <1>1 DEF PointsHeld, AtPoints
<1>3. \A d \in PointsCalls : PointsHeld(d)' BY <1>1, <1>2, OthersHold DEF PointsInv, PointsTyped
<1>4. soloToday' + UnderWay' <= Most
  <2>1. /\ UnderWay' = UnderWay - underWay[c] + underWay'[c] /\ UnderWay \in Int
        /\ underWay'[c] = 0 /\ underWay[c] \in Int
    BY <1>1, <1>3, SameUnderWay DEF AtPoints
  <2>2. soloToday \in Nat /\ soloToday + UnderWay <= Most BY DEF PointsInv, PointsTyped
  <2> QED BY <2>1, <2>2
<1> QED BY <1>1, <1>3, <1>4 DEF PointsInv, PointsTyped, Most, OneMoves

(* Rate is any number: what a conversion takes it gives.                   *)
LEMMA SameWorth ==
  ASSUME NEW acc \in Accounts, NEW toFree \in BOOLEAN
  PROVE  /\ Converted(acc, toFree) \in Accounts
         /\ Converted(acc, toFree).streak = acc.streak /\ Converted(acc, toFree).lastDay = acc.lastDay
         /\ Worth(Converted(acc, toFree)) = Worth(acc)
<1>1. acc.free \in Int /\ acc.paid \in Int BY DEF Accounts
<1>2. \A n \in Int : Rate * (n - 1) = Rate * n - Rate /\ Rate * (n + 1) = Rate * n + Rate /\ Rate * n \in Int
  BY PointsSizes
<1>3. Converted(acc, toFree) =
        [free |-> IF toFree THEN acc.free + Rate ELSE acc.free - Rate,
         paid |-> IF toFree THEN acc.paid - 1 ELSE acc.paid + 1,
         streak |-> acc.streak, lastDay |-> acc.lastDay]
  BY PointsSizes DEF Converted, Accounts
<1>4. CASE toFree BY <1>1, <1>2, <1>3, <1>4, PointsSizes DEF Worth, Accounts
<1>5. CASE ~toFree
  <2>1. Rate * (acc.paid + 1) = Rate * acc.paid + Rate /\ Rate * acc.paid \in Int BY <1>1, <1>2
  <2>2. Converted(acc, toFree) = [free |-> acc.free - Rate, paid |-> acc.paid + 1,
                                  streak |-> acc.streak, lastDay |-> acc.lastDay]
    BY <1>3, <1>5
  <2> QED BY <1>1, <2>1, <2>2, PointsSizes DEF Worth, Accounts
<1> QED BY <1>4, <1>5

LEMMA SumOfWorths ==
  ASSUME NEW a \in Int, NEW b \in Int, NEW c \in Int
  PROVE  Rate * (a + b + c) = Rate * a + Rate * b + Rate * c /\ Rate * a \in Int
BY PointsSizes

LEMMA SpinKeepsPoints ==
  ASSUME PointsInv, NEW c \in PointsCalls, SpinDrawn(c)
  PROVE  PointsInv'
<1> DEFINE seen == pointsCall[c].seen
           day == pointsCall[c].day
           now == Streak(seen, day)
           bonus == IF now \in DOMAIN Milestones THEN Milestones[now] ELSE [free |-> 0, paid |-> 0]
<1> USE PointsSizes
<1>1. /\ AtPoints(c, "spin") /\ Answers(c) /\ UNCHANGED <<today, soloToday>> BY DEF SpinDrawn, AtPoints
<1>2. /\ seen \in Accounts /\ day \in Nat /\ seen.lastDay < day /\ day <= today
  BY <1>1 DEF PointsInv, PointsHeld
<1>3. underWay[c] = 0 /\ soloToday \in Nat BY <1>1 DEF underWay, AtPoints, PointsInv, PointsTyped
<1>4. CASE UNCHANGED <<account, wheelDays, granted, worth, crossed>>
  BY <1>1, <1>3, <1>4, AnswerKeepsPoints DEF PointsInv, PointsTyped, Balanced, StreakKept, Worth
<1>5. CASE /\ \E seg \in Wheel :
                /\ account' = [free |-> seen.free + seg.free + bonus.free,
                               paid |-> seen.paid + seg.paid + bonus.paid,
                               streak |-> now, lastDay |-> day]
                /\ worth' = worth + Worth(seg) + Worth(bonus)
           /\ wheelDays' = wheelDays \cup {day} /\ Overwrites(seen)
  <2>1. PICK seg \in Wheel :
                /\ account' = [free |-> seen.free + seg.free + bonus.free,
                               paid |-> seen.paid + seg.paid + bonus.paid,
                               streak |-> now, lastDay |-> day]
                /\ worth' = worth + Worth(seg) + Worth(bonus)
    BY <1>5
  <2>2. seg \in Rewards /\ bonus \in Rewards BY PointsAssumption DEF Rewards
  <2>3. now \in Nat /\ (now = 1 \/ (now = seen.streak + 1 /\ seen.lastDay = day - 1))
        /\ (now = 1 /\ seen.lastDay = day - 1 => seen.streak = 0)
    BY <1>2 DEF Streak, Accounts
  <2> HIDE DEF now, bonus, seen, day
  <2>4. account' \in Accounts /\ account'.lastDay = day /\ account'.streak = now
    BY <1>2, <2>1, <2>2, <2>3 DEF Accounts, Rewards
  <2>5. seg.free \in Nat /\ seg.paid \in Nat /\ bonus.free \in Nat /\ bonus.paid \in Nat
        /\ seen.free \in Int /\ seen.paid \in Int
    BY <1>2, <2>2 DEF Rewards, Accounts
  <2>6. Worth(account)' = Worth(seen) + Worth(seg) + Worth(bonus)
        /\ Worth(seen) \in Int /\ Worth(seg) \in Int /\ Worth(bonus) \in Int
    <3>1. Rate * (seen.paid + seg.paid + bonus.paid) = Rate * seen.paid + Rate * seg.paid + Rate * bonus.paid
          /\ Rate * seen.paid \in Int /\ Rate * seg.paid \in Int /\ Rate * bonus.paid \in Int
      BY <2>5, SumOfWorths
    <3>2. account'.free = seen.free + seg.free + bonus.free
          /\ account'.paid = seen.paid + seg.paid + bonus.paid
      BY <2>1
    <3> QED BY <2>5, <3>1, <3>2 DEF Worth
  <2>7. worth \in Int /\ wheelDays \subseteq Nat /\ crossed \in BOOLEAN BY DEF PointsInv, PointsTyped
  <2>8. worth' \in Int BY <2>1, <2>6, <2>7
  <2>9. ASSUME ~crossed' PROVE (Balanced /\ StreakKept)'
    <3>1. account = seen /\ Balanced /\ StreakKept BY <1>5, <2>9 DEF Overwrites, PointsInv
    <3>2. Balanced'
      <4>1. account'.free >= 0 /\ account'.paid >= 0 BY <2>1, <2>5, <3>1 DEF Balanced
      <4> QED BY <2>1, <2>6, <3>1, <4>1 DEF Balanced
    <3>3. StreakKept'
      <4>1. seen.streak \in Nat /\ seen.lastDay \in Nat BY <1>2 DEF Accounts
      <4>2. \A d \in wheelDays : d \in Nat /\ d <= seen.lastDay BY <2>7, <3>1 DEF StreakKept
      <4>3. CASE seen.lastDay = day - 1 /\ now = seen.streak + 1
        <5>1. day - now = seen.lastDay - seen.streak BY <1>2, <4>1, <4>3
        <5>2. day - now \notin wheelDays BY <3>1, <5>1 DEF StreakKept
        <5>3. \A d \in day - now + 1 .. day : d = day \/ d \in seen.lastDay - seen.streak + 1 .. seen.lastDay
          BY <1>2, <2>3, <4>1, <4>3
        <5>4. seen.lastDay - seen.streak + 1 .. seen.lastDay \subseteq wheelDays BY <3>1 DEF StreakKept
        <5>5. day - now # day BY <1>2, <4>1, <4>3
        <5> QED BY <1>2, <1>5, <2>4, <4>1, <4>2, <5>2, <5>3, <5>4, <5>5 DEF StreakKept
      <4>4. CASE now = 1 /\ seen.lastDay # day - 1
        <5>1. day - 1 \notin wheelDays BY <1>2, <4>1, <4>2, <4>4
        <5>2. \A d \in day - 1 + 1 .. day : d = day BY <1>2
        <5> QED BY <1>2, <1>5, <2>4, <4>1, <4>2, <4>4, <5>1, <5>2 DEF StreakKept
      <4> QED BY <2>3, <4>1, <4>3, <4>4
    <3> QED BY <3>2, <3>3
  <2>10. wheelDays' \subseteq Nat /\ crossed' \in BOOLEAN BY <1>2, <1>5, <2>7 DEF Overwrites
  <2> QED BY <1>1, <1>2, <1>3, <2>4, <2>8, <2>9, <2>10, AnswerKeepsPoints
<1> QED BY <1>4, <1>5 DEF SpinDrawn

LEMMA ConvertKeepsPoints ==
  ASSUME PointsInv, NEW c \in PointsCalls, ConvertWritten(c)
  PROVE  PointsInv'
<1> DEFINE seen == pointsCall[c].seen
           new == Converted(seen, pointsCall[c].toFree)
<1> USE PointsSizes
<1>1. /\ AtPoints(c, "convert") /\ Answers(c) /\ UNCHANGED <<today, soloToday, wheelDays, worth>>
      /\ account' = [account EXCEPT !.free = new.free, !.paid = new.paid] /\ Overwrites(seen)
  BY DEF ConvertWritten, AtPoints
<1>2. /\ seen \in Accounts /\ pointsCall[c].toFree \in BOOLEAN /\ new.free >= 0 /\ new.paid >= 0
  BY <1>1 DEF PointsInv, PointsHeld
<1>3. new \in Accounts /\ new.streak = seen.streak /\ new.lastDay = seen.lastDay /\ Worth(new) = Worth(seen)
  BY <1>2, SameWorth
<1>4. underWay[c] = 0 BY <1>1 DEF underWay, AtPoints
<1>5. PointsTyped BY DEF PointsInv
<1> HIDE DEF new, seen
<1>6. /\ account' \in Accounts /\ account'.lastDay = account.lastDay /\ account'.streak = account.streak
      /\ account'.free = new.free /\ account'.paid = new.paid
  BY <1>1, <1>3, <1>5 DEF Accounts, PointsTyped
<1>7. ~crossed' => account = seen /\ Balanced /\ StreakKept BY <1>1 DEF Overwrites, PointsInv
<1>8. ~crossed' => (Balanced /\ StreakKept)'
  BY <1>1, <1>2, <1>3, <1>6, <1>7 DEF Balanced, StreakKept, Worth
<1>9. soloToday' \in Nat /\ soloToday' = soloToday + underWay[c] BY <1>1, <1>4, <1>5 DEF PointsTyped
<1> QED BY <1>1, <1>5, <1>6, <1>8, <1>9, AnswerKeepsPoints DEF PointsTyped, Overwrites

LEMMA FreeReward ==
  ASSUME PointsTyped, NEW n \in Nat, account' = [account EXCEPT !.free = @ + n], worth' = worth + n,
         UNCHANGED <<wheelDays, crossed>>
  PROVE  /\ account' \in Accounts /\ account'.lastDay = account.lastDay /\ worth' \in Int
         /\ Balanced /\ StreakKept => (Balanced /\ StreakKept)'
<1>1. /\ account' = [free |-> account.free + n, paid |-> account.paid,
                     streak |-> account.streak, lastDay |-> account.lastDay]
      /\ account.free \in Int /\ account.paid \in Int /\ worth \in Int /\ Rate * account.paid \in Int
  BY PointsSizes DEF PointsTyped, Accounts
<1> QED BY <1>1 DEF PointsTyped, Accounts, Balanced, StreakKept, Worth

LEMMA RewardsKeepPoints ==
  ASSUME PointsInv, ShareWin \/ \E c \in PointsCalls : SoloAwarded(c)
  PROVE  PointsInv'
<1> USE PointsSizes
<1>1. PointsTyped BY DEF PointsInv
<1>2. CASE ShareWin
  <2>1. /\ account' \in Accounts /\ account'.lastDay = account.lastDay /\ worth' \in Int
        /\ Balanced /\ StreakKept => (Balanced /\ StreakKept)'
    BY <1>1, <1>2, FreeReward DEF ShareWin
  <2>2. UNCHANGED <<today, wheelDays, soloToday, pointsCall, crossed>> BY <1>2 DEF ShareWin
  <2> QED BY <1>1, <2>1, <2>2 DEF PointsInv, PointsTyped, PointsHeld, AtPoints, UnderWay, underWay
<1>3. ASSUME NEW c \in PointsCalls, SoloAwarded(c) PROVE PointsInv'
  <2> DEFINE award == Awarded(pointsCall[c].already)
  <2>1. /\ AtPoints(c, "solo") /\ Answers(c) /\ UNCHANGED <<today, wheelDays, crossed>>
        /\ soloToday' = soloToday + award /\ worth' = worth + award
        /\ account' = [account EXCEPT !.free = @ + award]
    BY <1>3 DEF SoloAwarded, AtPoints, Awarded
  <2>2. award \in Nat
    <3>1. pointsCall[c].already \in Nat /\ pointsCall[c].already < SoloCap
      BY <2>1 DEF PointsInv, PointsHeld
    <3> QED BY <3>1, AwardFits
  <2>3. underWay[c] = award BY <2>1 DEF underWay
  <2> HIDE DEF award
  <2>4. /\ account' \in Accounts /\ account'.lastDay = account.lastDay /\ worth' \in Int
        /\ Balanced /\ StreakKept => (Balanced /\ StreakKept)'
    BY <1>1, <2>1, <2>2, FreeReward
  <2>5. soloToday' \in Nat BY <1>1, <2>1, <2>2 DEF PointsTyped
  <2>6. ~crossed' => (Balanced /\ StreakKept)' BY <2>1, <2>4 DEF PointsInv
  <2> QED BY <1>1, <2>1, <2>3, <2>4, <2>5, <2>6, AnswerKeepsPoints DEF PointsTyped
<1> QED BY <1>2, <1>3

LEMMA DayKeepsPoints == ASSUME PointsInv, NewDay PROVE PointsInv'
<1> USE PointsSizes
<1>1. /\ today' = today + 1 /\ soloToday' = 0
      /\ UNCHANGED <<account, wheelDays, pointsCall, worth, crossed>>
  BY DEF NewDay
<1>2. PointsTyped' BY <1>1 DEF PointsInv, PointsTyped, Accounts
<1>3. \A c \in PointsCalls : PointsHeld(c)' BY <1>1 DEF PointsInv, PointsTyped, PointsHeld, AtPoints
<1>4. soloToday' + UnderWay' <= Most
  <2>1. PICK c \in PointsCalls : TRUE BY PointsAssumption
  <2>2. \A d \in PointsCalls : underWay[d] \in Nat /\ underWay[d] <= SoloAward /\ underWay[d] <= SoloCap
    BY UnderWayTyped DEF PointsInv
  <2>3. 0 + underWay[c] <= SoloCap BY <2>2
  <2>4. 0 + SumFunctionOnSet(underWay, PointsCalls) <= Most BY <2>2, <2>3, OthersFit
  <2>5. UnderWay' = UnderWay BY <1>1 DEF UnderWay, underWay, AtPoints
  <2> QED BY <1>1, <2>4, <2>5 DEF UnderWay
<1> QED BY <1>1, <1>2, <1>3, <1>4 DEF PointsInv, Balanced, StreakKept, Worth, Most

LEMMA PointsGoOn == PointsInv /\ [PointsNext]_pointsVars => PointsInv'
<1> SUFFICES ASSUME PointsInv, [PointsNext]_pointsVars PROVE PointsInv'
  OBVIOUS
<1>1. CASE WinsATournament \/ UNCHANGED pointsVars
  <2>1. UNCHANGED <<account, today, wheelDays, soloToday, pointsCall, worth, crossed>>
    BY <1>1 DEF WinsATournament, pointsVars
  <2> QED BY <2>1 DEF PointsInv, PointsTyped, PointsHeld, AtPoints, Balanced, StreakKept, Worth, UnderWay,
                      underWay, Most
<1>2. CASE \E c \in PointsCalls : Spin(c) \/ SoloWin(c) \/ \E toFree \in BOOLEAN : Convert(c, toFree)
  BY <1>2, ReadingKeepsPoints
<1>3. CASE \E c \in PointsCalls : SpinDrawn(c) BY <1>3, SpinKeepsPoints
<1>4. CASE \E c \in PointsCalls : ConvertWritten(c) BY <1>4, ConvertKeepsPoints
<1>5. CASE ShareWin \/ \E c \in PointsCalls : SoloAwarded(c) BY <1>5, RewardsKeepPoints
<1>6. CASE NewDay BY <1>6, DayKeepsPoints
<1> QED BY <1>1, <1>2, <1>3, <1>4, <1>5, <1>6 DEF PointsNext

(* points.service.ts: every change is recorded, and the account is what    *)
(* the records add up to, in points and in days of streak, unless a spin   *)
(* or a conversion wrote over a change made since it read; the daily cap   *)
(* of solo rewards is passed by one award per further handler at most.     *)
THEOREM RecordsAddUp == PointsInit /\ [][PointsNext]_pointsVars => []PointsAddUp
<1>1. PointsInv => PointsAddUp
  <2> SUFFICES ASSUME PointsInv PROVE PointsAddUp
    OBVIOUS
  <2>1. \A c \in PointsCalls : underWay[c] \in Nat BY UnderWayTyped DEF PointsInv
  <2>2. UnderWay \in Nat BY <2>1, PointsSizes, SumNat DEF UnderWay
  <2>3. soloToday \in Nat /\ soloToday + UnderWay <= Most BY DEF PointsInv, PointsTyped
  <2>4. soloToday <= Most BY <2>2, <2>3, PointsSizes
  <2> QED BY <2>4 DEF PointsInv, Balanced, StreakKept, Most, PointsAddUp
<1> QED BY PointsBegins, PointsGoOn, <1>1, PTL

-----------------------------------------------------------------------------
(* PlayerLimits: until two calls race, each holds the row as it is; every  *)
(* ceiling is what was last asked for it or waits for it in the snapshot.  *)
(* Until deposits are stacked, all but the newest have been received, and  *)
(* what still counts when one arrives counted already when it was let in.  *)

RowOf == [ceiling : [Windows -> Ceilings], pending : [Windows -> Ceilings], effectiveAt : Nat]
Changing == [at : {"set"}, next : LimitRequests, row : RowOf]
Depositing == [at : {"deposit"}, cents : Amounts, row : RowOf]
AtLimit(c, where) == limitCall[c].at = where
HasRow(c) == limitCall[c].at \in {"promote", "set", "deposit"}
LimitHeld(c) ==
  LET doing == limitCall[c] IN
  /\ AtLimit(c, "set") => doing \in Changing
  /\ AtLimit(c, "deposit") => doing \in Depositing
  /\ AtLimit(c, "promote") => /\ doing.then \in Changing \cup Depositing /\ doing.row \in RowOf
                              /\ doing.row.effectiveAt # 0 /\ doing.row.effectiveAt <= hour
  /\ AtLimit(c, "break") => doing.until \in Nat
LimitDeposits == [cents : Amounts, received : Nat, under : [Windows -> Ceilings]]
LimitsTyped ==
  /\ hour \in Nat \ {0} /\ limits \in RowOf /\ excludedUntil \in Nat /\ longest \in Nat
  /\ deposits \in Seq(LimitDeposits) /\ stacked \in BOOLEAN
  /\ asked \in [Windows -> Ceilings] /\ from \in [Windows -> Nat]
  /\ DOMAIN limitCall = LimitCalls /\ \A c \in LimitCalls : LimitHeld(c)
  /\ \A w \in Windows : from[w] <= hour + CoolingOff

BreakKept ==
  "break" \notin raced => /\ excludedUntil = longest
                          /\ \A c \in LimitCalls : AtLimit(c, "break") => longest <= limitCall[c].until
AskedFor(w) ==
  \/ /\ limits.ceiling[w] = asked[w] /\ from[w] <= hour
     /\ limits.effectiveAt # 0 => limits.pending[w] = asked[w]
  \/ /\ limits.ceiling[w] < asked[w] /\ limits.pending[w] = asked[w]
     /\ limits.effectiveAt # 0 /\ from[w] <= limits.effectiveAt
LimitsKept ==
  "limits" \notin raced => /\ \A c \in LimitCalls : HasRow(c) => limitCall[c].row = limits
                           /\ \A w \in Windows : AskedFor(w)

(* What counts of the first n deposits.                                    *)
Counting(ds, n, w, t) == {j \in 1..n : ds[j].received \in (t - WindowHours[w] .. t) \ {0}}
UsedOf(ds, n, w, t) == SumFunctionOnSet([j \in 1..n |-> ds[j].cents], Counting(ds, n, w, t))
Fits(i) ==
  \A w \in Windows : deposits[i].under[w] # Unlimited =>
    IF deposits[i].received # 0
    THEN UsedOf(deposits, i, w, deposits[i].received) <= deposits[i].under[w]
    ELSE UsedOf(deposits, i - 1, w, hour) + deposits[i].cents <= deposits[i].under[w]
DepositsFit ==
  /\ \A i \in 1..Len(deposits) : deposits[i].received <= hour
  /\ ~stacked => \A i \in 1..Len(deposits) :
                   /\ \A j \in 1..i - 1 : deposits[j].received # 0
                   /\ Fits(i)
LimitsInv == LimitsTyped /\ BreakKept /\ LimitsKept /\ DepositsFit

LEMMA LimitSizes ==
  /\ Unlimited \in Nat \ {0} /\ CoolingOff \in Nat \ {0} /\ Amounts \subseteq Nat \ {0}
  /\ \A w \in Windows : WindowHours[w] \in Nat
  /\ Breaks \subseteq Nat \ {0} /\ Ceilings \subseteq Nat
BY LimitsAssumption DEF Ceilings

LEMMA Asking ==
  /\ \A next \in LimitRequests : DOMAIN next \subseteq Windows /\ \A w \in DOMAIN next : next[w] \in Ceilings
  /\ \A v \in Ceilings : [w \in Windows |-> v] \in LimitRequests
BY DEF LimitRequests

LEMMA Overriding ==
  ASSUME NEW f \in [Windows -> Ceilings], NEW next \in LimitRequests, NEW ws \in SUBSET (DOMAIN next)
  PROVE  /\ Override(f, next, ws) \in [Windows -> Ceilings]
         /\ \A w \in Windows : Override(f, next, ws)[w] = IF w \in ws THEN next[w] ELSE f[w]
BY Asking DEF Override

(* What a write says of the other calls when it raced none.                *)
LEMMA NotRaced ==
  ASSUME NEW c \in LimitCalls, NEW what \in {"limits", "break"}, Races(c, what)
  PROVE  /\ \A x : x # what => (x \in raced' <=> x \in raced)
         /\ what \notin raced' =>
              /\ what \notin raced
              /\ \A d \in LimitCalls : d # c /\ ~LimitIdle(d) => (AtLimit(d, "break") <=> what # "break")
BY DEF Races, AtLimit

-----------------------------------------------------------------------------
LEMMA UsedIs ==
  ASSUME deposits \in Seq(LimitDeposits), NEW n \in 0..Len(deposits), NEW w \in Windows, NEW t \in Nat
  PROVE  usedByWindow(SubSeq(deposits, 1, n), w, t) = UsedOf(deposits, n, w, t)
<1> DEFINE ds == SubSeq(deposits, 1, n)
           I == Counting(deposits, n, w, t)
<1>1. DOMAIN ds = 1..n /\ \A j \in 1..n : ds[j] = deposits[j] OBVIOUS
<1>2. {i \in DOMAIN ds : ds[i].received \in (t - WindowHours[w] .. t) \ {0}} = I
  BY <1>1 DEF Counting
<1>3. [i \in DOMAIN ds |-> ds[i].cents] = [j \in 1..n |-> deposits[j].cents] BY <1>1
<1> QED BY <1>2, <1>3 DEF usedByWindow, UsedOf

(* Only what was received of the first n deposits, and when, counts.       *)
LEMMA UsedSame ==
  ASSUME NEW ds, NEW es, NEW n \in Nat, NEW w, NEW t,
         \A j \in 1..n : es[j] = ds[j] /\ ds[j].cents \in Int
  PROVE  UsedOf(es, n, w, t) = UsedOf(ds, n, w, t)
<1>1. Counting(es, n, w, t) = Counting(ds, n, w, t) BY DEF Counting
<1>2. [j \in 1..n |-> es[j].cents] = [j \in 1..n |-> ds[j].cents] OBVIOUS
<1> QED BY <1>1, <1>2 DEF UsedOf

(* As time passes less counts of what was received.                        *)
LEMMA UsedShrinks ==
  ASSUME NEW ds, NEW n \in Nat, NEW w \in Windows, NEW t \in Nat,
         \A j \in 1..n : ds[j].cents \in Nat /\ ds[j].received \in Nat /\ ds[j].received <= t
  PROVE  UsedOf(ds, n, w, t + 1) <= UsedOf(ds, n, w, t)
<1>1. Counting(ds, n, w, t + 1) \subseteq Counting(ds, n, w, t)
  BY LimitSizes DEF Counting
<1>2. IsFiniteSet(Counting(ds, n, w, t)) /\ Counting(ds, n, w, t) \subseteq 1..n
  <2>1. Counting(ds, n, w, t) \subseteq 1..n BY DEF Counting
  <2>2. IsFiniteSet(1..n) BY FS_Interval
  <2> QED BY <2>1, <2>2, FS_Subset
<1> QED BY <1>1, <1>2, SumSubset DEF UsedOf

(* One more deposit, received now.                                         *)
LastArrives(ds, es, n, t) ==
  /\ \A j \in 1..n : ds[j].cents \in Int /\ es[j].cents = ds[j].cents
  /\ \A j \in 1..n - 1 : es[j].received = ds[j].received
  /\ es[n].received = t
LEMMA UsedGrows ==
  ASSUME NEW ds, NEW es, NEW n \in Nat \ {0}, NEW w \in Windows, NEW t \in Nat \ {0},
         LastArrives(ds, es, n, t)
  PROVE  UsedOf(es, n, w, t) = UsedOf(ds, n - 1, w, t) + ds[n].cents
<1> USE DEF LastArrives
<1> DEFINE I == Counting(ds, n - 1, w, t)
           f == [j \in 1..n |-> es[j].cents]
           g == [j \in 1..n - 1 |-> ds[j].cents]
<1>1. IsFiniteSet(I) /\ I \subseteq 1..n - 1 /\ n \notin I /\ n - 1 \in Nat
  <2>1. I \subseteq 1..n - 1 BY DEF Counting
  <2>2. n - 1 \in Nat /\ n \notin 1..n - 1 OBVIOUS
  <2>3. IsFiniteSet(1..n - 1) BY <2>2, FS_Interval
  <2> QED BY <2>1, <2>2, <2>3, FS_Subset
<1>2. Counting(es, n, w, t) = I \cup {n} BY LimitSizes DEF Counting
<1>3. \A j \in 1..n : f[j] \in Int /\ f[j] = ds[j].cents OBVIOUS
<1>4. \A j \in 1..n - 1 : f[j] = g[j] OBVIOUS
<1>5. \A j \in I \cup {n} : j \in 1..n BY <1>1
<1>6. UsedOf(ds, n - 1, w, t) = SumFunctionOnSet(g, I) /\ UsedOf(es, n, w, t) = SumFunctionOnSet(f, I \cup {n})
  BY <1>2 DEF UsedOf
<1> HIDE DEF f, g, I
<1>7. SumFunctionOnSet(f, I \cup {n}) = f[n] + SumFunctionOnSet(f, I) BY <1>1, <1>3, <1>5, SumIn
<1>8. SumFunctionOnSet(f, I) = SumFunctionOnSet(g, I) BY <1>1, <1>3, <1>4, <1>5, SumSame
<1>9. SumFunctionOnSet(f, I) \in Int BY <1>1, <1>3, <1>5, SumType
<1>10. f[n] = ds[n].cents /\ f[n] \in Int BY <1>3
<1> QED BY <1>6, <1>7, <1>8, <1>9, <1>10

LEMMA UsedTyped ==
  ASSUME NEW ds, NEW n \in Nat, NEW w, NEW t, \A j \in 1..n : ds[j].cents \in Nat
  PROVE  UsedOf(ds, n, w, t) \in Nat
<1>1. IsFiniteSet(Counting(ds, n, w, t)) /\ Counting(ds, n, w, t) \subseteq 1..n
  BY FS_Interval, FS_Subset DEF Counting
<1> QED BY <1>1, SumNat DEF UsedOf

-----------------------------------------------------------------------------
OnlyLimit(c) ==
  DOMAIN limitCall' = LimitCalls /\ \A d \in LimitCalls : d # c => limitCall'[d] = limitCall[d]
LEMMA LimitMoves ==
  ASSUME LimitsTyped, NEW c \in LimitCalls
  PROVE  /\ LimitDone(c) => OnlyLimit(c) /\ limitCall'[c] = [at |-> "idle"]
         /\ \A doing : LimitGoes(c, doing) => OnlyLimit(c) /\ limitCall'[c] = doing
BY DEF LimitDone, LimitGoes, OnlyLimit, LimitsTyped

LEMMA OthersAsBefore ==
  ASSUME LimitsTyped, NEW c \in LimitCalls, OnlyLimit(c), hour' = hour, LimitHeld(c)'
  PROVE  \A d \in LimitCalls : LimitHeld(d)'
<1> SUFFICES ASSUME NEW d \in LimitCalls, d # c PROVE LimitHeld(d)'
  OBVIOUS
<1>1. limitCall'[d] = limitCall[d] /\ LimitHeld(d) BY DEF OnlyLimit, LimitsTyped
<1> QED BY <1>1 DEF LimitHeld, AtLimit

(* A call that reads, and holds what it read.                              *)
LEMMA ReadingKeepsLimits ==
  ASSUME LimitsInv, NEW c \in LimitCalls, OnlyLimit(c), LimitHeld(c)',
         UNCHANGED <<hour, limits, excludedUntil, asked, from, longest, raced, deposits, stacked>>,
         HasRow(c)' => limitCall'[c].row = limits,
         AtLimit(c, "break")' => excludedUntil <= limitCall'[c].until
  PROVE  LimitsInv'
<1>1. LimitsTyped'
  <2>1. \A d \in LimitCalls : LimitHeld(d)' BY OthersAsBefore DEF LimitsInv
  <2> QED BY <2>1 DEF LimitsInv, LimitsTyped, OnlyLimit
<1>2. BreakKept' BY DEF LimitsInv, BreakKept, OnlyLimit, AtLimit
<1>3. LimitsKept' BY DEF LimitsInv, LimitsKept, OnlyLimit, HasRow, AskedFor
<1>4. DepositsFit' BY DEF LimitsInv, DepositsFit, Fits
<1> QED BY <1>1, <1>2, <1>3, <1>4 DEF LimitsInv

LEMMA Read ==
  ASSUME LimitsTyped, NEW c \in LimitCalls, NEW doing \in Changing \cup Depositing, doing.row = limits,
         Reads(c, doing), hour' = hour
  PROVE  /\ OnlyLimit(c) /\ LimitHeld(c)' /\ limitCall'[c].row = limits
         /\ limitCall'[c].at \in {"promote", "set", "deposit"}
<1>1. doing.at \in {"set", "deposit"} /\ (doing.at = "set" => doing \in Changing)
      /\ (doing.at = "deposit" => doing \in Depositing)
  BY DEF Changing, Depositing
<1>2. CASE Due(limits)
  <2>1. OnlyLimit(c) /\ limitCall'[c] = [at |-> "promote", then |-> doing, row |-> limits]
    BY <1>2, LimitMoves DEF Reads
  <2>2. limits \in RowOf /\ limits.effectiveAt # 0 /\ limits.effectiveAt <= hour
    BY <1>2 DEF Due, LimitsTyped
  <2> QED BY <2>1, <2>2 DEF LimitHeld, AtLimit
<1>3. CASE ~Due(limits)
  <2>1. OnlyLimit(c) /\ limitCall'[c] = doing BY <1>3, LimitMoves DEF Reads
  <2> QED BY <1>1, <2>1 DEF LimitHeld, AtLimit
<1> QED BY <1>2, <1>3

LEMMA AsksKeepLimits ==
  ASSUME LimitsInv, NEW c \in LimitCalls,
         \/ \E next \in LimitRequests : AskLimits(c, next)
         \/ \E cents \in Amounts : AskDeposit(c, cents)
         \/ \E days \in Breaks : AskBreak(c, days)
  PROVE  LimitsInv'
<1>1. LimitsTyped /\ limits \in RowOf BY DEF LimitsInv, LimitsTyped
<1>2. ASSUME NEW next \in LimitRequests, AskLimits(c, next) PROVE LimitsInv'
  <2> DEFINE doing == [at |-> "set", next |-> next, row |-> limits]
  <2>1. doing \in Changing BY <1>1 DEF Changing
  <2>2. /\ Reads(c, doing) /\ UNCHANGED <<hour, limits, excludedUntil, asked, from, longest, raced>>
        /\ UNCHANGED <<deposits, stacked>>
    BY <1>2 DEF AskLimits, depositVars
  <2>3. doing.row = limits OBVIOUS
  <2> HIDE DEF doing
  <2>4. OnlyLimit(c) /\ LimitHeld(c)' /\ limitCall'[c].row = limits /\ ~AtLimit(c, "break")'
    BY <1>1, <2>1, <2>2, <2>3, Read DEF AtLimit
  <2> QED BY <2>2, <2>4, ReadingKeepsLimits
<1>3. ASSUME NEW cents \in Amounts, AskDeposit(c, cents) PROVE LimitsInv'
  <2> DEFINE doing == [at |-> "deposit", cents |-> cents, row |-> limits]
  <2>1. doing \in Depositing BY <1>1 DEF Depositing
  <2>2. /\ Reads(c, doing) /\ UNCHANGED <<hour, limits, excludedUntil, asked, from, longest, raced>>
        /\ UNCHANGED <<deposits, stacked>>
    BY <1>3 DEF AskDeposit, depositVars
  <2>3. doing.row = limits OBVIOUS
  <2> HIDE DEF doing
  <2>4. OnlyLimit(c) /\ LimitHeld(c)' /\ limitCall'[c].row = limits /\ ~AtLimit(c, "break")'
    BY <1>1, <2>1, <2>2, <2>3, Read DEF AtLimit
  <2> QED BY <2>2, <2>4, ReadingKeepsLimits
<1>4. ASSUME NEW days \in Breaks, AskBreak(c, days) PROVE LimitsInv'
  <2>1. /\ UNCHANGED <<hour, limits, excludedUntil, asked, from, longest, raced, deposits, stacked>>
        /\ excludedUntil <= hour + days
        /\ OnlyLimit(c) /\ limitCall'[c] = [at |-> "break", until |-> hour + days]
    BY <1>1, <1>4, LimitMoves DEF AskBreak, depositVars
  <2>2. hour + days \in Nat BY <1>1, LimitSizes DEF LimitsTyped
  <2>3. LimitHeld(c)' /\ ~HasRow(c)' BY <2>1, <2>2 DEF LimitHeld, AtLimit, HasRow
  <2> QED BY <2>1, <2>3, ReadingKeepsLimits
<1> QED BY <1>2, <1>3, <1>4

(* The row changes: no other call holds one, or they raced.                *)
LEMMA NobodyHolds ==
  ASSUME LimitsTyped, NEW c \in LimitCalls, OnlyLimit(c), Races(c, "limits"),
         HasRow(c)' => limitCall'[c].row = limits'
  PROVE  "limits" \notin raced' =>
           "limits" \notin raced /\ \A d \in LimitCalls : HasRow(d)' => limitCall'[d].row = limits'
<1> SUFFICES ASSUME "limits" \notin raced' PROVE "limits" \notin raced /\ \A d \in LimitCalls : HasRow(d)' => limitCall'[d].row = limits'
  OBVIOUS
<1>1. "limits" \notin raced /\ \A d \in LimitCalls : d # c /\ ~LimitIdle(d) => AtLimit(d, "break")
  BY NotRaced
<1>2. ASSUME NEW d \in LimitCalls, d # c PROVE ~HasRow(d)'
  <2>1. limitCall'[d] = limitCall[d] BY <1>2 DEF OnlyLimit
  <2>2. LimitIdle(d) \/ AtLimit(d, "break") BY <1>1, <1>2
  <2> QED BY <2>1, <2>2 DEF LimitIdle, AtLimit, HasRow
<1> QED BY <1>1, <1>2

(* A write of the row leaves the breaks and the deposits alone.            *)
LEMMA RowWritten ==
  ASSUME LimitsInv, NEW c \in LimitCalls, OnlyLimit(c), LimitHeld(c)', Races(c, "limits"),
         ~AtLimit(c, "break")',
         UNCHANGED <<hour, excludedUntil, longest, deposits, stacked>>,
         limits' \in RowOf, asked' \in [Windows -> Ceilings], from' \in [Windows -> Nat],
         \A w \in Windows : from'[w] <= hour + CoolingOff,
         HasRow(c)' => limitCall'[c].row = limits',
         "limits" \notin raced => \A w \in Windows : AskedFor(w)'
  PROVE  LimitsInv'
<1>1. LimitsTyped'
  <2>1. \A d \in LimitCalls : LimitHeld(d)' BY OthersAsBefore DEF LimitsInv
  <2> QED BY <2>1 DEF LimitsInv, LimitsTyped, OnlyLimit
<1>2. BreakKept'
  <2>1. "break" \in raced' <=> "break" \in raced BY NotRaced
  <2> QED BY <2>1 DEF LimitsInv, BreakKept, OnlyLimit, AtLimit
<1>3. LimitsKept' BY NobodyHolds DEF LimitsInv, LimitsKept
<1>4. DepositsFit' BY DEF LimitsInv, DepositsFit, Fits
<1> QED BY <1>1, <1>2, <1>3, <1>4 DEF LimitsInv

LEMMA PromoteKeepsLimits ==
  ASSUME LimitsInv, NEW c \in LimitCalls, Promote(c)
  PROVE  LimitsInv'
<1> DEFINE row == limitCall[c].row
           then == limitCall[c].then
<1>1. LimitsTyped BY DEF LimitsInv
<1>2. /\ AtLimit(c, "promote") /\ Races(c, "limits")
      /\ limits' = [ceiling |-> row.pending, pending |-> row.pending, effectiveAt |-> 0]
      /\ LimitGoes(c, [then EXCEPT !.row = limits'])
      /\ UNCHANGED <<hour, excludedUntil, asked, from, longest, deposits, stacked>>
  BY DEF Promote, AtLimit, depositVars
<1>3. /\ then \in Changing \cup Depositing /\ row \in RowOf
      /\ row.effectiveAt # 0 /\ row.effectiveAt <= hour
  BY <1>1, <1>2 DEF LimitsTyped, LimitHeld
<1> HIDE DEF then
<1>4. limits' \in RowOf BY <1>2, <1>3 DEF RowOf
<1>5. OnlyLimit(c) /\ limitCall'[c] = [then EXCEPT !.row = limits'] BY <1>1, <1>2, LimitMoves
<1>6. /\ limitCall'[c].row = limits' /\ limitCall'[c].at \in {"set", "deposit"}
      /\ limitCall'[c].at = "set" => limitCall'[c] \in Changing
      /\ limitCall'[c].at = "deposit" => limitCall'[c] \in Depositing
  BY <1>3, <1>4, <1>5 DEF Changing, Depositing
<1>7. LimitHeld(c)' /\ ~AtLimit(c, "break")' BY <1>6 DEF LimitHeld, AtLimit
<1>8. ASSUME "limits" \notin raced, NEW w \in Windows PROVE AskedFor(w)'
  <2>1. row = limits /\ AskedFor(w) BY <1>2, <1>8 DEF LimitsInv, LimitsKept, HasRow, AtLimit
  <2> HIDE DEF row
  <2>2. limits'.ceiling[w] = limits.pending[w] /\ limits'.effectiveAt = 0 BY <1>2, <2>1
  <2>3. from[w] \in Nat /\ hour \in Nat /\ limits.effectiveAt \in Nat
    BY <1>1, <1>3, <2>1 DEF LimitsTyped, RowOf
  <2> QED BY <1>2, <1>3, <2>1, <2>2, <2>3 DEF AskedFor
<1> QED BY <1>1, <1>2, <1>4, <1>5, <1>6, <1>7, <1>8, RowWritten DEF LimitsTyped

LEMMA WrittenTyped ==
  ASSUME LimitsTyped, NEW row \in RowOf, NEW next \in LimitRequests
  PROVE  Written(row, next) \in RowOf
<1> DEFINE I == Immediate(row, next)
           now == Override(limits.ceiling, next, I)
           snapshot == Snapshot(row, next)
<1>1. I \in SUBSET (DOMAIN next) /\ Delayed(row, next) \in SUBSET (DOMAIN next)
  BY DEF Immediate, Delayed
<1>2. limits.ceiling \in [Windows -> Ceilings] /\ limits.pending \in [Windows -> Ceilings]
      /\ limits.effectiveAt \in Nat
  BY DEF LimitsTyped, RowOf
<1>3. row.ceiling \in [Windows -> Ceilings] /\ row.pending \in [Windows -> Ceilings] /\ row.effectiveAt \in Nat
  BY DEF RowOf
<1>4. now \in [Windows -> Ceilings] BY <1>1, <1>2, Overriding
<1>5. snapshot \in [Windows -> Ceilings] BY <1>3, Overriding DEF Snapshot
<1>6. hour + CoolingOff \in Nat BY LimitSizes DEF LimitsTyped
<1> HIDE DEF I, now, snapshot
<1>7. \A p \in [Windows -> Ceilings], at \in Nat :
        /\ [ceiling |-> now, pending |-> p, effectiveAt |-> at] \in RowOf
        /\ [limits EXCEPT !.ceiling = now, !.pending = p] \in RowOf
  BY <1>2, <1>4 DEF RowOf, LimitsTyped
<1> QED BY <1>2, <1>3, <1>4, <1>5, <1>6, <1>7 DEF Written, now, snapshot, I

(* What set() writes when the row is as it was read.                       *)
LEMMA WrittenAsAsked ==
  ASSUME LimitsTyped, NEW next \in LimitRequests, NEW w \in Windows, AskedFor(w),
         limits' = Written(limits, next),
         asked'[w] = IF w \in DOMAIN next THEN next[w] ELSE asked[w],
         from'[w] = IF w \in Delayed(limits, next) THEN hour + CoolingOff
                    ELSE IF w \in DOMAIN next THEN 0 ELSE from[w],
         hour' = hour
  PROVE  AskedFor(w)'
<1> DEFINE I == Immediate(limits, next)
           now == Override(limits.ceiling, next, I)
           snapshot == Snapshot(limits, next)
           waiting == Delayed(limits, next) # {} \/ limits.effectiveAt # 0
           raises == \E v \in Windows : isRaise(now[v], snapshot[v])
           at == IF Delayed(limits, next) # {} THEN hour + CoolingOff ELSE limits.effectiveAt
<1>1. I \in SUBSET (DOMAIN next) /\ Delayed(limits, next) \in SUBSET (DOMAIN next)
  BY DEF Immediate, Delayed
<1>2. limits.ceiling \in [Windows -> Ceilings] /\ limits.pending \in [Windows -> Ceilings]
      /\ limits.effectiveAt \in Nat
  BY DEF LimitsTyped, RowOf
<1>3. now \in [Windows -> Ceilings] /\ now[w] = IF w \in I THEN next[w] ELSE limits.ceiling[w]
  BY <1>1, <1>2, Overriding
<1>4. /\ snapshot \in [Windows -> Ceilings]
      /\ snapshot[w] = IF w \in DOMAIN next THEN next[w]
                       ELSE IF limits.effectiveAt # 0 THEN limits.pending[w] ELSE limits.ceiling[w]
  BY <1>2, Overriding DEF Snapshot
<1>5. /\ hour \in Nat /\ hour # 0 /\ CoolingOff \in Nat /\ CoolingOff # 0 /\ from[w] \in Nat
      /\ from[w] <= hour + CoolingOff /\ asked[w] \in Nat
      /\ limits.ceiling[w] \in Nat /\ limits.pending[w] \in Nat
  BY <1>2, LimitSizes DEF LimitsTyped
<1>6. /\ w \in DOMAIN next => next[w] \in Nat
      /\ w \in I => next[w] <= limits.ceiling[w] /\ w \in DOMAIN next /\ w \notin Delayed(limits, next)
      /\ w \in DOMAIN next /\ w \notin I => w \in Delayed(limits, next) /\ limits.ceiling[w] < next[w]
      /\ w \in Delayed(limits, next) => w \in DOMAIN next /\ w \notin I
  <2>1. w \in DOMAIN next => next[w] \in Nat BY Asking, LimitSizes
  <2> QED BY <1>2, <1>5, <2>1 DEF Immediate, Delayed, isRaise
<1>7. limits' = IF waiting
                THEN [ceiling |-> now, pending |-> IF raises THEN snapshot ELSE now,
                      effectiveAt |-> IF raises THEN at ELSE 0]
                ELSE [limits EXCEPT !.ceiling = now, !.pending = IF limits.effectiveAt = 0 THEN now ELSE @]
  BY DEF Written
<1>8. isRaise(now[w], snapshot[w]) <=> now[w] < snapshot[w]
  BY <1>3, <1>4, LimitSizes DEF isRaise
<1>9. isRaise(now[w], snapshot[w]) => raises OBVIOUS
<1> HIDE DEF I, now, snapshot, raises
<1>10. CASE waiting
  <2>1. /\ limits'.ceiling[w] = now[w]
        /\ raises => limits'.pending[w] = snapshot[w] /\ limits'.effectiveAt = at
        /\ ~raises => limits'.effectiveAt = 0
    BY <1>7, <1>10
  <2>2. CASE w \in Delayed(limits, next)
    <3>1. raises /\ at = hour + CoolingOff /\ now[w] < next[w] /\ snapshot[w] = next[w]
      BY <1>3, <1>4, <1>5, <1>6, <1>8, <1>9, <2>2
    <3> QED BY <1>5, <1>6, <2>1, <2>2, <3>1 DEF AskedFor
  <2>3. CASE w \in DOMAIN next /\ w \notin Delayed(limits, next)
    <3>1. now[w] = next[w] /\ snapshot[w] = next[w] BY <1>3, <1>4, <1>6, <2>3
    <3> QED BY <1>5, <2>1, <2>3, <3>1 DEF AskedFor
  <2>4. CASE w \notin DOMAIN next
    <3>1. now[w] = limits.ceiling[w] /\ asked'[w] = asked[w] /\ from'[w] = from[w]
      BY <1>1, <1>3, <1>6, <2>4
    <3>2. CASE limits.effectiveAt # 0
      <4>1. snapshot[w] = limits.pending[w] /\ snapshot[w] = asked[w] BY <1>4, <2>4, <3>2 DEF AskedFor
      <4>2. CASE limits.ceiling[w] < asked[w]
        <5>1. raises /\ from[w] <= limits.effectiveAt BY <1>5, <1>8, <1>9, <3>1, <4>1, <4>2 DEF AskedFor
        <5>2. at # 0 /\ from[w] <= at BY <1>2, <1>5, <3>2, <5>1
        <5> QED BY <2>1, <3>1, <4>1, <4>2, <5>1, <5>2 DEF AskedFor
      <4>3. CASE ~(limits.ceiling[w] < asked[w])
        <5>1. limits.ceiling[w] = asked[w] /\ from[w] <= hour BY <4>3 DEF AskedFor
        <5> QED BY <2>1, <3>1, <4>1, <5>1 DEF AskedFor
      <4> QED BY <4>2, <4>3
    <3>3. CASE limits.effectiveAt = 0
      <4>1. snapshot[w] = limits.ceiling[w] /\ limits.ceiling[w] = asked[w] /\ from[w] <= hour
        BY <1>4, <2>4, <3>3 DEF AskedFor
      <4> QED BY <2>1, <3>1, <4>1 DEF AskedFor
    <3> QED BY <3>2, <3>3
  <2> QED BY <2>2, <2>3, <2>4
<1>11. CASE ~waiting
  <2>1. limits'.ceiling = now /\ limits'.effectiveAt = 0 BY <1>7, <1>11 DEF LimitsTyped, RowOf
  <2>2. w \notin Delayed(limits, next) /\ limits.effectiveAt = 0 BY <1>11
  <2>3. limits.ceiling[w] = asked[w] /\ from[w] <= hour BY <2>2 DEF AskedFor
  <2>4. now[w] = asked'[w] /\ from'[w] <= hour BY <1>3, <1>5, <1>6, <2>2, <2>3
  <2> QED BY <2>1, <2>4 DEF AskedFor
<1> QED BY <1>10, <1>11

LEMMA SetKeepsLimits ==
  ASSUME LimitsInv, NEW c \in LimitCalls, SetLimits(c)
  PROVE  LimitsInv'
<1> DEFINE row == limitCall[c].row
           next == limitCall[c].next
<1>1. LimitsTyped BY DEF LimitsInv
<1>2. /\ AtLimit(c, "set") /\ LimitDone(c) /\ Races(c, "limits")
      /\ limits' = Written(row, next) /\ asked' = Override(asked, next, DOMAIN next)
      /\ from' = [w \in Windows |-> IF w \in Delayed(row, next) THEN hour + CoolingOff
                                    ELSE IF w \in DOMAIN next THEN 0 ELSE from[w]]
      /\ UNCHANGED <<hour, excludedUntil, longest, deposits, stacked>>
  BY DEF SetLimits, AtLimit, depositVars
<1>3. row \in RowOf /\ next \in LimitRequests BY <1>1, <1>2 DEF LimitsTyped, LimitHeld, Changing
<1> HIDE DEF next
<1>4. limits' \in RowOf BY <1>1, <1>2, <1>3, WrittenTyped
<1>5. OnlyLimit(c) /\ limitCall'[c] = [at |-> "idle"] BY <1>1, <1>2, LimitMoves
<1>6. LimitHeld(c)' /\ ~AtLimit(c, "break")' /\ ~HasRow(c)' BY <1>5 DEF LimitHeld, AtLimit, HasRow
<1>7. /\ asked' \in [Windows -> Ceilings]
      /\ \A w \in Windows : asked'[w] = IF w \in DOMAIN next THEN next[w] ELSE asked[w]
  BY <1>1, <1>2, <1>3, Overriding DEF LimitsTyped
<1>8. hour + CoolingOff \in Nat /\ \A w \in Windows : from[w] \in Nat /\ from[w] <= hour + CoolingOff
  BY <1>1, LimitSizes DEF LimitsTyped
<1>9. from' \in [Windows -> Nat] /\ \A w \in Windows : from'[w] <= hour + CoolingOff
  BY <1>2, <1>8
<1>10. ASSUME "limits" \notin raced, NEW w \in Windows PROVE AskedFor(w)'
  <2>1. row = limits /\ AskedFor(w) BY <1>2, <1>10 DEF LimitsInv, LimitsKept, HasRow, AtLimit
  <2> QED BY <1>1, <1>2, <1>3, <1>7, <2>1, WrittenAsAsked
<1> QED BY <1>1, <1>2, <1>4, <1>5, <1>6, <1>7, <1>9, <1>10, RowWritten DEF LimitsTyped

LEMMA BreakKeepsLimits ==
  ASSUME LimitsInv, NEW c \in LimitCalls, TakeBreak(c)
  PROVE  LimitsInv'
<1>1. LimitsTyped BY DEF LimitsInv
<1>2. /\ AtLimit(c, "break") /\ LimitDone(c) /\ Races(c, "break")
      /\ excludedUntil' = limitCall[c].until
      /\ longest' = (IF longest < limitCall[c].until THEN limitCall[c].until ELSE longest)
      /\ UNCHANGED <<hour, limits, asked, from, deposits, stacked>>
  BY DEF TakeBreak, AtLimit, depositVars
<1>3. limitCall[c].until \in Nat /\ longest \in Nat BY <1>1, <1>2 DEF LimitsTyped, LimitHeld
<1>4. OnlyLimit(c) /\ limitCall'[c] = [at |-> "idle"] BY <1>1, <1>2, LimitMoves
<1>5. LimitsTyped'
  <2>1. LimitHeld(c)' BY <1>4 DEF LimitHeld, AtLimit
  <2>2. \A d \in LimitCalls : LimitHeld(d)' BY <1>1, <1>2, <1>4, <2>1, OthersAsBefore
  <2> QED BY <1>1, <1>2, <1>3, <1>4, <2>2 DEF LimitsTyped, OnlyLimit
<1>6. BreakKept'
  <2> SUFFICES ASSUME "break" \notin raced'
               PROVE  /\ excludedUntil' = longest'
                      /\ \A d \in LimitCalls : ~AtLimit(d, "break")'
    BY DEF BreakKept
  <2>1. "break" \notin raced /\ \A d \in LimitCalls : d # c /\ ~LimitIdle(d) => ~AtLimit(d, "break")
    BY <1>2, NotRaced
  <2>2. longest <= limitCall[c].until BY <1>2, <2>1 DEF LimitsInv, BreakKept
  <2>3. \A d \in LimitCalls : ~AtLimit(d, "break")'
    BY <1>4, <2>1 DEF OnlyLimit, AtLimit, LimitIdle
  <2> QED BY <1>2, <1>3, <2>2, <2>3
<1>7. LimitsKept'
  <2>1. "limits" \in raced' <=> "limits" \in raced BY <1>2, NotRaced
  <2> QED BY <1>2, <1>4, <2>1 DEF LimitsInv, LimitsKept, OnlyLimit, HasRow, AskedFor
<1>8. DepositsFit' BY <1>2 DEF LimitsInv, DepositsFit, Fits
<1> QED BY <1>5, <1>6, <1>7, <1>8 DEF LimitsInv

LEMMA DepositRows ==
  ASSUME LimitsTyped
  PROVE  /\ Len(deposits) \in Nat /\ DOMAIN deposits = 1..Len(deposits)
         /\ \A i \in 1..Len(deposits) :
              /\ deposits[i] \in LimitDeposits /\ deposits[i].cents \in Nat /\ deposits[i].received \in Nat
              /\ \A w \in Windows : deposits[i].under[w] \in Nat
<1>1. Len(deposits) \in Nat /\ DOMAIN deposits = 1..Len(deposits)
      /\ \A i \in 1..Len(deposits) : deposits[i] \in LimitDeposits
  BY DEF LimitsTyped
<1> QED BY <1>1, LimitSizes DEF LimitDeposits

(* What does not touch the limits, nor a call.                             *)
LEMMA DepositsAlone ==
  ASSUME LimitsInv, UNCHANGED <<limits, excludedUntil, asked, from, longest, raced>>,
         limitCall' = limitCall \/ \E c \in LimitCalls : OnlyLimit(c) /\ limitCall'[c] = [at |-> "idle"],
         hour' \in Nat, hour <= hour', deposits' \in Seq(LimitDeposits), stacked' \in BOOLEAN, DepositsFit'
  PROVE  LimitsInv'
<1>1. LimitsTyped /\ hour \in Nat /\ hour # 0 /\ CoolingOff \in Nat BY LimitSizes DEF LimitsInv, LimitsTyped
<1>2. DOMAIN limitCall' = LimitCalls
      /\ \A d \in LimitCalls : limitCall'[d] = limitCall[d] \/ limitCall'[d] = [at |-> "idle"]
  BY <1>1 DEF OnlyLimit, LimitsTyped
<1>3. \A d \in LimitCalls : LimitHeld(d)'
  <2> TAKE d \in LimitCalls
  <2>1. LimitHeld(d) BY <1>1 DEF LimitsTyped
  <2>2. CASE limitCall'[d] = [at |-> "idle"] BY <2>2 DEF LimitHeld, AtLimit
  <2>3. CASE limitCall'[d] = limitCall[d]
    <3>1. AtLimit(d, "promote") => limitCall[d].row.effectiveAt \in Nat
      BY <2>1 DEF LimitHeld, RowOf
    <3> QED BY <1>1, <2>1, <2>3, <3>1 DEF LimitHeld, AtLimit
  <2> QED BY <1>2, <2>2, <2>3
<1>4. LimitsTyped'
  <2>1. \A w \in Windows : from[w] \in Nat /\ from[w] <= hour + CoolingOff BY <1>1 DEF LimitsTyped
  <2>2. \A w \in Windows : from'[w] <= hour' + CoolingOff BY <1>1, <2>1
  <2> QED BY <1>1, <1>2, <1>3, <2>2 DEF LimitsTyped
<1>5. BreakKept' BY <1>2 DEF LimitsInv, BreakKept, AtLimit
<1>6. LimitsKept'
  <2>1. \A w \in Windows : AskedFor(w) => AskedFor(w)'
    <3> TAKE w \in Windows
    <3>1. from[w] \in Nat BY <1>1 DEF LimitsTyped
    <3> QED BY <1>1, <3>1 DEF AskedFor
  <2> QED BY <1>2, <2>1 DEF LimitsInv, LimitsKept, HasRow
<1> QED BY <1>4, <1>5, <1>6 DEF LimitsInv

LEMMA HourKeepsLimits == ASSUME LimitsInv, HourPasses PROVE LimitsInv'
<1>1. /\ hour' = hour + 1 /\ hour \in Nat /\ LimitsTyped
      /\ UNCHANGED <<limits, excludedUntil, limitCall, asked, from, longest, raced, deposits, stacked>>
  BY DEF HourPasses, depositVars, LimitsInv, LimitsTyped
<1>2. DepositsFit'
  <2>1. \A i \in 1..Len(deposits) : deposits[i].received <= hour BY DEF LimitsInv, DepositsFit
  <2>2. \A i \in 1..Len(deposits) : deposits'[i].received <= hour' BY <1>1, <2>1, DepositRows
  <2>3. ASSUME ~stacked, NEW i \in 1..Len(deposits)
        PROVE  (\A j \in 1..i - 1 : deposits[j].received # 0) /\ Fits(i)'
    <3>1. (\A j \in 1..i - 1 : deposits[j].received # 0) /\ Fits(i) BY <2>3 DEF LimitsInv, DepositsFit
    <3> SUFFICES ASSUME NEW w \in Windows, deposits[i].under[w] # Unlimited, deposits[i].received = 0
                 PROVE  UsedOf(deposits, i - 1, w, hour + 1) + deposits[i].cents <= deposits[i].under[w]
      BY <1>1, <3>1 DEF Fits
    <3>2. i - 1 \in Nat /\ \A j \in 1..i - 1 : j \in 1..Len(deposits) BY <1>1, DepositRows
    <3>3. \A j \in 1..i - 1 : /\ deposits[j].cents \in Nat /\ deposits[j].received \in Nat
                              /\ deposits[j].received <= hour
      BY <1>1, <2>1, <3>2, DepositRows
    <3>4. UsedOf(deposits, i - 1, w, hour + 1) <= UsedOf(deposits, i - 1, w, hour)
      BY <1>1, <3>2, <3>3, UsedShrinks
    <3>5. UsedOf(deposits, i - 1, w, hour + 1) \in Nat /\ UsedOf(deposits, i - 1, w, hour) \in Nat
      BY <3>2, <3>3, UsedTyped
    <3>6. UsedOf(deposits, i - 1, w, hour) + deposits[i].cents <= deposits[i].under[w] BY <3>1 DEF Fits
    <3>7. deposits[i].cents \in Nat /\ deposits[i].under[w] \in Nat BY <1>1, DepositRows
    <3> QED BY <3>4, <3>5, <3>6, <3>7
  <2> QED BY <1>1, <2>2, <2>3 DEF DepositsFit
<1>3. deposits' \in Seq(LimitDeposits) /\ stacked' \in BOOLEAN BY <1>1 DEF LimitsTyped
<1> QED BY <1>1, <1>2, <1>3, DepositsAlone

LEMMA ArrivalKeepsLimits ==
  ASSUME LimitsInv, NEW i \in DOMAIN deposits, DepositArrives(i)
  PROVE  LimitsInv'
<1>1. /\ deposits' = [deposits EXCEPT ![i].received = hour] /\ deposits[i].received = 0
      /\ UNCHANGED <<hour, limits, excludedUntil, limitCall, asked, from, longest, raced, stacked>>
      /\ hour \in Nat \ {0} /\ LimitsTyped
  BY DEF DepositArrives, LimitsInv, LimitsTyped
<1>2. i \in 1..Len(deposits) BY <1>1, DepositRows
<1>3. /\ deposits'[i] = [cents |-> deposits[i].cents, received |-> hour, under |-> deposits[i].under]
      /\ deposits'[i] \in LimitDeposits
  <2>1. deposits[i] \in LimitDeposits BY <1>1, <1>2, DepositRows
  <2>2. deposits'[i] = [deposits[i] EXCEPT !.received = hour] BY <1>1
  <2> QED BY <1>1, <2>1, <2>2 DEF LimitDeposits
<1>4. \A j \in 1..Len(deposits) : j # i => deposits'[j] = deposits[j] BY <1>1, DepositRows
<1>5. deposits' \in Seq(LimitDeposits) /\ Len(deposits') = Len(deposits)
  BY <1>1, <1>3 DEF LimitsTyped
<1>6. DepositsFit'
  <2>1. \A j \in 1..Len(deposits) : deposits[j].received <= hour BY DEF LimitsInv, DepositsFit
  <2>2. \A j \in 1..Len(deposits) : deposits'[j].received <= hour BY <1>1, <1>3, <1>4, <2>1
  <2>3. ASSUME ~stacked, NEW j \in 1..Len(deposits)
        PROVE  (\A k \in 1..j - 1 : deposits'[k].received # 0) /\ Fits(j)'
    <3>1. \A n \in 1..Len(deposits) : (\A k \in 1..n - 1 : deposits[k].received # 0) /\ Fits(n)
      BY <2>3 DEF LimitsInv, DepositsFit
    <3>2. \A k \in 1..j - 1 : k \in 1..Len(deposits) BY <1>1, DepositRows
    <3>3. \A k \in 1..j - 1 : deposits'[k].received # 0 BY <1>1, <1>3, <1>4, <3>1, <3>2
    <3>4. j <= i BY <1>1, <1>2, <3>1, DepositRows
    <3>5. j - 1 \in Nat /\ j \in Nat \ {0} /\ \A k \in 1..j - 1 : k # i BY <3>4, <1>2, DepositRows
    <3>6. \A k \in 1..j - 1 : deposits'[k] = deposits[k] /\ deposits[k].cents \in Nat
      BY <1>1, <1>4, <3>2, <3>5, DepositRows
    <3>7. Fits(j)'
      <4> SUFFICES ASSUME NEW w \in Windows, deposits'[j].under[w] # Unlimited
                   PROVE  IF deposits'[j].received # 0
                          THEN UsedOf(deposits', j, w, deposits'[j].received) <= deposits'[j].under[w]
                          ELSE UsedOf(deposits', j - 1, w, hour) + deposits'[j].cents <= deposits'[j].under[w]
        BY <1>1 DEF Fits
      <4>1. CASE j # i
        <5>1. deposits'[j] = deposits[j] /\ Fits(j) /\ deposits[j].cents \in Nat
          BY <1>1, <1>4, <3>1, <4>1, DepositRows
        <5>2. \A k \in 1..j : deposits'[k] = deposits[k] /\ deposits[k].cents \in Int
          BY <3>5, <3>6, <5>1
        <5>3. \A t : UsedOf(deposits', j, w, t) = UsedOf(deposits, j, w, t)
          BY <3>5, <5>2, UsedSame
        <5>4. \A t : UsedOf(deposits', j - 1, w, t) = UsedOf(deposits, j - 1, w, t)
          BY <3>5, <3>6, UsedSame
        <5> QED BY <5>1, <5>3, <5>4 DEF Fits
      <4>2. CASE j = i
        <5>1. UsedOf(deposits, i - 1, w, hour) + deposits[i].cents <= deposits[i].under[w]
          BY <1>1, <1>3, <3>1, <4>2 DEF Fits
        <5>2. deposits[i].cents \in Nat BY <1>1, <1>2, DepositRows
        <5>3. \A k \in 1..i : deposits[k].cents \in Int /\ deposits'[k].cents = deposits[k].cents
          BY <1>3, <3>5, <3>6, <4>2, <5>2
        <5>4. \A k \in 1..i - 1 : deposits'[k].received = deposits[k].received BY <3>6, <4>2
        <5>5. deposits'[i].received = hour /\ i \in Nat \ {0} BY <1>3, <3>5, <4>2
        <5>6. UsedOf(deposits', i, w, hour) = UsedOf(deposits, i - 1, w, hour) + deposits[i].cents
          <6>1. hour \in Nat \ {0} BY <1>1
          <6>2. LastArrives(deposits, deposits', i, hour) BY <5>3, <5>4, <5>5 DEF LastArrives
          <6> QED BY <5>5, <6>1, <6>2, UsedGrows
        <5> QED BY <1>1, <1>3, <4>2, <5>1, <5>6
      <4> QED BY <4>1, <4>2
    <3> QED BY <3>3, <3>7
  <2> QED BY <1>1, <1>5, <2>2, <2>3 DEF DepositsFit
<1> QED BY <1>1, <1>5, <1>6, DepositsAlone DEF LimitsTyped

LEMMA AllowedKeepsLimits ==
  ASSUME LimitsInv, NEW c \in LimitCalls, DepositAllowed(c)
  PROVE  LimitsInv'
<1> DEFINE ceiling == limitCall[c].row.ceiling
           cents == limitCall[c].cents
           n == Len(deposits)
<1>1. /\ AtLimit(c, "deposit") /\ LimitDone(c) /\ LimitsTyped
      /\ UNCHANGED <<hour, limits, excludedUntil, asked, from, longest, raced>>
  BY DEF DepositAllowed, AtLimit, LimitsInv
<1>2. OnlyLimit(c) /\ limitCall'[c] = [at |-> "idle"] BY <1>1, LimitMoves
<1>3. hour \in Nat /\ hour # 0 /\ deposits \in Seq(LimitDeposits) /\ stacked \in BOOLEAN
  BY <1>1 DEF LimitsTyped
<1>4. CASE UNCHANGED <<deposits, stacked>>
  <2>1. DepositsFit' BY <1>1, <1>4 DEF LimitsInv, DepositsFit, Fits
  <2> QED BY <1>1, <1>2, <1>3, <1>4, <2>1, DepositsAlone
<1>5. CASE /\ \A w \in Windows : ceiling[w] = Unlimited \/ usedByWindow(deposits, w, hour) + cents <= ceiling[w]
           /\ deposits' = Append(deposits, [cents |-> cents, received |-> 0, under |-> ceiling])
           /\ stacked' = (stacked \/ \E i \in DOMAIN deposits : deposits[i].received = 0)
  <2>1. ceiling \in [Windows -> Ceilings] /\ cents \in Amounts
    BY <1>1 DEF LimitsTyped, LimitHeld, Depositing, RowOf
  <2> HIDE DEF ceiling, cents
  <2>2. /\ n \in Nat /\ Len(deposits') = n + 1 /\ \A i \in 1..n : deposits'[i] = deposits[i]
        /\ deposits'[n + 1] = [cents |-> cents, received |-> 0, under |-> ceiling]
        /\ deposits' \in Seq(LimitDeposits)
    BY <1>3, <1>5, <2>1 DEF LimitDeposits
  <2>3. DepositsFit'
    <3>1. \A i \in 1..n : deposits[i].received <= hour BY DEF LimitsInv, DepositsFit
    <3>2. \A i \in 1..n + 1 : deposits'[i].received <= hour
      <4> TAKE i \in 1..n + 1
      <4>1. CASE i = n + 1 BY <1>3, <2>2, <4>1
      <4>2. CASE i \in 1..n BY <2>2, <3>1, <4>2
      <4> QED BY <2>2, <4>1, <4>2
    <3>3. ASSUME ~stacked', NEW i \in 1..n + 1
          PROVE  (\A j \in 1..i - 1 : deposits'[j].received # 0) /\ Fits(i)'
      <4>1. ~stacked /\ \A j \in 1..n : deposits[j].received # 0 BY <1>1, <1>5, <3>3, DepositRows
      <4>2. \A j \in 1..i - 1 : j \in 1..n BY <2>2
      <4>3. \A j \in 1..i - 1 : deposits'[j].received # 0 BY <2>2, <4>1, <4>2
      <4>4. \A j \in 1..n : deposits'[j] = deposits[j] /\ deposits[j].cents \in Int
        BY <1>1, <2>2, DepositRows
      <4>5. CASE i = n + 1
        <5> SUFFICES ASSUME NEW w \in Windows, ceiling[w] # Unlimited
                     PROVE  UsedOf(deposits', n, w, hour) + cents <= ceiling[w]
          <6>1. i - 1 = n BY <2>2, <4>5
          <6> QED BY <1>1, <2>2, <4>3, <4>5, <6>1 DEF Fits
        <5>1. usedByWindow(deposits, w, hour) + cents <= ceiling[w] BY <1>5
        <5>2. SubSeq(deposits, 1, n) = deposits BY <1>3
        <5>3. usedByWindow(deposits, w, hour) = UsedOf(deposits, n, w, hour)
          <6>1. n \in 0..Len(deposits) BY <2>2
          <6> QED BY <1>3, <5>2, <6>1, UsedIs
        <5>4. UsedOf(deposits', n, w, hour) = UsedOf(deposits, n, w, hour)
          <6>1. n \in Nat BY <2>2
          <6> HIDE DEF n
          <6> QED BY <4>4, <6>1, UsedSame
        <5> QED BY <5>1, <5>3, <5>4
      <4>6. CASE i \in 1..n
        <5>1. deposits'[i] = deposits[i] /\ Fits(i) BY <2>2, <4>1, <4>6 DEF LimitsInv, DepositsFit
        <5>2. i \in Nat /\ i - 1 \in Nat /\ \A k \in 1..i : k \in 1..n BY <2>2, <4>6
        <5>3. \A w, t : /\ UsedOf(deposits', i, w, t) = UsedOf(deposits, i, w, t)
                        /\ UsedOf(deposits', i - 1, w, t) = UsedOf(deposits, i - 1, w, t)
          <6> TAKE w, t
          <6>1. UsedOf(deposits', i, w, t) = UsedOf(deposits, i, w, t) BY <4>4, <5>2, UsedSame
          <6>2. UsedOf(deposits', i - 1, w, t) = UsedOf(deposits, i - 1, w, t)
            BY <4>2, <4>4, <5>2, UsedSame
          <6> QED BY <6>1, <6>2
        <5> QED BY <1>1, <4>3, <5>1, <5>3 DEF Fits
      <4> QED BY <2>2, <4>5, <4>6
    <3> QED BY <1>1, <2>2, <3>2, <3>3 DEF DepositsFit
  <2>4. stacked' \in BOOLEAN BY <1>3, <1>5
  <2> QED BY <1>1, <1>2, <1>3, <2>2, <2>3, <2>4, DepositsAlone
<1> QED BY <1>4, <1>5 DEF DepositAllowed, depositVars

LEMMA LimitsBegin == LimitsInit => LimitsInv
<1> SUFFICES ASSUME LimitsInit PROVE LimitsInv
  OBVIOUS
<1> DEFINE open == [w \in Windows |-> Unlimited]
<1>1. /\ hour = 1 /\ limits = [ceiling |-> open, pending |-> open, effectiveAt |-> 0]
      /\ excludedUntil = 0 /\ limitCall = [c \in LimitCalls |-> [at |-> "idle"]]
      /\ asked = open /\ from = [w \in Windows |-> 0] /\ longest = 0 /\ raced = {}
      /\ deposits = <<>> /\ stacked = FALSE
  BY DEF LimitsInit
<1>2. open \in [Windows -> Ceilings] BY LimitSizes DEF Ceilings
<1> HIDE DEF open
<1>3. LimitsTyped
  <2>1. limits \in RowOf BY <1>1, <1>2 DEF RowOf
  <2>2. \A c \in LimitCalls : LimitHeld(c) BY <1>1 DEF LimitHeld, AtLimit
  <2>3. \A w \in Windows : from[w] <= hour + CoolingOff BY <1>1, LimitSizes
  <2>4. deposits \in Seq(LimitDeposits) /\ stacked \in BOOLEAN
    <3>1. <<>> \in Seq(LimitDeposits) OBVIOUS
    <3> QED BY <1>1, <3>1
  <2>5. from \in [Windows -> Nat] BY <1>1
  <2> QED BY <1>1, <1>2, <2>1, <2>2, <2>3, <2>4, <2>5 DEF LimitsTyped
<1>4. BreakKept BY <1>1 DEF BreakKept, AtLimit
<1>5. LimitsKept BY <1>1 DEF LimitsKept, HasRow, AskedFor
<1>6. DepositsFit
  <2>1. Len(deposits) = 0 BY <1>1
  <2> QED BY <2>1 DEF DepositsFit
<1> QED BY <1>3, <1>4, <1>5, <1>6 DEF LimitsInv

LEMMA LimitsGoOn == LimitsInv /\ [LimitsNext \/ DepositsNext]_limitsVars => LimitsInv'
<1> SUFFICES ASSUME LimitsInv, [LimitsNext \/ DepositsNext]_limitsVars PROVE LimitsInv'
  OBVIOUS
<1>1. CASE UNCHANGED limitsVars
  <2>1. UNCHANGED <<hour, limits, excludedUntil, limitCall, asked, from, longest, raced, deposits, stacked>>
    BY <1>1 DEF limitsVars, depositVars
  <2>2. DepositsFit' BY <2>1 DEF LimitsInv, DepositsFit, Fits
  <2>3. hour' \in Nat /\ hour <= hour' /\ deposits' \in Seq(LimitDeposits) /\ stacked' \in BOOLEAN
    BY <2>1 DEF LimitsInv, LimitsTyped
  <2> QED BY <2>1, <2>2, <2>3, DepositsAlone
<1>2. CASE \E c \in LimitCalls : \/ \E next \in LimitRequests : AskLimits(c, next)
                                 \/ \E cents \in Amounts : AskDeposit(c, cents)
                                 \/ \E days \in Breaks : AskBreak(c, days)
  BY <1>2, AsksKeepLimits
<1>3. CASE \E c \in LimitCalls : Promote(c) \/ SetLimits(c) \/ TakeBreak(c) \/ DepositAllowed(c)
  BY <1>3, PromoteKeepsLimits, SetKeepsLimits, BreakKeepsLimits, AllowedKeepsLimits
<1>4. CASE HourPasses BY <1>4, HourKeepsLimits
<1>5. CASE \E i \in DOMAIN deposits : DepositArrives(i) BY <1>5, ArrivalKeepsLimits
<1>6. CASE LimitsNext BY <1>2, <1>3, <1>4, <1>6 DEF LimitsNext
<1>7. CASE DepositsNext
  <2>1. \A c \in LimitCalls, v \in Ceilings :
          AskLimits(c, [w \in Windows |-> v]) => \E next \in LimitRequests : AskLimits(c, next)
    BY Asking
  <2> QED BY <1>2, <1>3, <1>4, <1>5, <1>7, <2>1 DEF DepositsNext
<1> QED BY <1>1, <1>6, <1>7

(* player-limit.service.ts:11: a ceiling is what was last asked for it,    *)
(* except a raise, which waits out its cooling-off while the ceiling stays;*)
(* a break lasts as long as the longest one asked for; and no deposit takes*)
(* what a window received over the ceiling it was let in under, unless two *)
(* were under way at once.                                                 *)
THEOREM PlayersAreProtected ==
  LimitsInit /\ [][LimitsNext \/ DepositsNext]_limitsVars => []ProtectionHolds
<1>1. LimitsInv => ProtectionHolds
  <2> SUFFICES ASSUME LimitsInv PROVE ProtectionHolds
    OBVIOUS
  <2>1. LimitsTyped BY DEF LimitsInv
  <2>2. "break" \notin raced => excludedUntil = longest BY DEF LimitsInv, BreakKept
  <2>3. "limits" \notin raced => \A w \in Windows :
          \/ limits.ceiling[w] = asked[w] /\ hour >= from[w]
          \/ /\ limits.ceiling[w] < asked[w] /\ limits.pending[w] = asked[w]
             /\ limits.effectiveAt >= from[w]
    <3>1. \A w \in Windows : from[w] \in Nat /\ hour \in Nat /\ limits.effectiveAt \in Nat
      BY <2>1 DEF LimitsTyped, RowOf
    <3> QED BY <3>1 DEF LimitsInv, LimitsKept, AskedFor
  <2>4. ASSUME ~stacked, NEW i \in DOMAIN deposits, NEW w \in Windows,
               deposits[i].received # 0, deposits[i].under[w] # Unlimited
        PROVE  usedByWindow(SubSeq(deposits, 1, i), w, deposits[i].received) <= deposits[i].under[w]
    <3>1. i \in 1..Len(deposits) /\ i \in 0..Len(deposits) /\ deposits[i].received \in Nat
      BY <2>1, DepositRows
    <3>2. UsedOf(deposits, i, w, deposits[i].received) <= deposits[i].under[w]
      BY <2>4, <3>1 DEF LimitsInv, DepositsFit, Fits
    <3>3. usedByWindow(SubSeq(deposits, 1, i), w, deposits[i].received)
            = UsedOf(deposits, i, w, deposits[i].received)
      BY <2>1, <3>1, UsedIs DEF LimitsTyped
    <3> QED BY <3>2, <3>3
  <2> QED BY <2>2, <2>3, <2>4 DEF ProtectionHolds
<1> QED BY LimitsBegin, LimitsGoOn, <1>1, PTL

-----------------------------------------------------------------------------
(* Payments: deposits are credited once, and plans keep the days paid for. *)
(* CreditsMatchPayments is inductive as it stands: what the calls hold     *)
(* (CallsTyped, Acting) is part of it.  For the days, PlansInv adds what a *)
(* call that settles a request has read and not written yet.               *)

Inv == CreditsMatchPayments
Busy == OrderPcs \cup {"attach"}

Touches(c) == DOMAIN call' = Calls /\ \A d \in Calls : d # c => call'[d] = call[d]

(* A call that acts on no PAID order and goes on to do nothing with an     *)
(* order disturbs nothing, as long as the orders stay as they are.         *)
LEMMA QuietStep ==
  ASSUME Inv, NEW c \in Calls, call'[c].pc \notin Busy, Touches(c),
         call[c].pc \notin {"credit", "find"} \/ failures' > 0,
         UNCHANGED money, failures' \in Nat, failures' = 0 => failures = 0
  PROVE  Inv'
<1> USE DEF Inv, CreditsMatchPayments, money
<1>1. DOMAIN call' = Calls /\ \A d \in Calls : d # c => call'[d] = call[d]
  BY DEF Touches
<1>2. \A o \in Orders, d \in Calls : Acting(d, o)' => d # c /\ Acting(d, o)
  BY <1>1 DEF Acting, Busy, OrderPcs
<1>3. MoneyTyped'
  BY DEF MoneyTyped
<1>4. CallsTyped'
  BY <1>1 DEF CallsTyped, At, Busy, PcsOf, OrderPcs
<1>5. PaidOnce'
  BY <1>2 DEF PaidOnce
<1>6. NothingLost'
  <2> SUFFICES ASSUME failures' = 0, NEW o \in Deposits, order[o] = "PAID", o \notin credited
               PROVE  \E d \in Calls : Acting(d, o)'
    BY DEF NothingLost
  <2>1. PICK d \in Calls : Acting(d, o)
    BY DEF NothingLost
  <2>2. d # c
    BY <2>1 DEF Acting, MoneyTyped
  <2> QED BY <1>1, <2>1, <2>2 DEF Acting
<1> QED BY <1>3, <1>4, <1>5, <1>6

-----------------------------------------------------------------------------
(* Calls that begin with an order, and what the player does.               *)
LEMMA Beginnings ==
  ASSUME Inv, UNCHANGED failures, NEW c \in Calls, NEW o \in Orders,
         \/ OpenDeposit(c, o) /\ o \in Deposits
         \/ ReportPaid(c, o) \/ ReportFailed(c, o)
  PROVE  Inv'
<1> USE DEF Inv, CreditsMatchPayments, Free, At, Go, money
<1>1. PICK pc \in {"mint", "claim", "fail"} :
        /\ call' = [call EXCEPT ![c] = [pc |-> pc, order |-> o]]
        /\ pc \in PcsOf(o) /\ (pc = "claim" => o \in paid)
  BY DEF OpenDeposit, ReportPaid, ReportFailed, PcsOf, OrderPcs
<1>2. call'[c] = [pc |-> pc, order |-> o] /\ \A d \in Calls : d # c => call'[d] = call[d]
  BY <1>1 DEF CallsTyped
<1>3. call[c].pc = "idle"
  BY DEF OpenDeposit, ReportPaid, ReportFailed
<1>4. \A p \in Orders, d \in Calls : Acting(d, p)' <=> Acting(d, p)
  BY <1>2, <1>3 DEF Acting
<1>5. UNCHANGED <<links, paid, credited>>
  BY DEF OpenDeposit, ReportPaid, ReportFailed
<1>6. /\ order' \in [Orders -> {None, "PENDING", "PAID", "FAILED"}]
      /\ \A p \in Orders : order'[p] = "PAID" <=> order[p] = "PAID"
  BY PaymentsAssumption DEF OpenDeposit, MayOpen, ReportPaid, ReportFailed, MoneyTyped, None
<1>7. MoneyTyped'
  BY <1>5, <1>6 DEF MoneyTyped
<1>8. CallsTyped'
  BY <1>1, <1>2, <1>5 DEF CallsTyped, PcsOf
<1>9. PaidOnce'
  BY <1>4, <1>5, <1>6 DEF PaidOnce, MoneyTyped, Orders
<1>10. NothingLost'
  BY <1>4, <1>5, <1>6 DEF NothingLost, Orders
<1> QED BY <1>7, <1>8, <1>9, <1>10

LEMMA Paying ==
  ASSUME Inv, UNCHANGED failures, NEW o \in Orders, PlayerPays(o)
  PROVE  Inv'
BY DEF Inv, CreditsMatchPayments, PlayerPays, MoneyTyped, CallsTyped, PaidOnce, NothingLost,
       Acting, At, PcsOf

-----------------------------------------------------------------------------
(* Calls that end having written to their order or to the player's links.  *)
LEMMA Endings ==
  ASSUME Inv, UNCHANGED failures, NEW c \in Calls,
         MintDeposit(c) \/ PaymentFailed(c) \/ AttachOrder(c)
  PROVE  Inv'
<1> USE DEF Inv, CreditsMatchPayments, At, Go, Return
<1>1. call'[c] = Idle /\ \A d \in Calls : d # c => call'[d] = call[d]
  BY DEF CallsTyped, MintDeposit, PaymentFailed, AttachOrder
<1>2. call[c].pc \notin {"credit", "find"}
  BY DEF MintDeposit, PaymentFailed, AttachOrder
<1>3. \A p \in Orders, d \in Calls : Acting(d, p)' <=> Acting(d, p)
  BY <1>1, <1>2 DEF Acting, Idle
<1>4. UNCHANGED <<paid, credited>> /\ links \subseteq links' /\ links' \subseteq Orders
  BY DEF MintDeposit, PaymentFailed, AttachOrder, CallsTyped, MoneyTyped, PcsOf, OrderPcs, Orders
<1>5. /\ order' \in [Orders -> {None, "PENDING", "PAID", "FAILED"}]
      /\ \A p \in Orders : order'[p] = "PAID" <=> order[p] = "PAID"
  BY DEF MintDeposit, PaymentFailed, AttachOrder, MoneyTyped
<1>6. MoneyTyped'
  BY <1>4, <1>5 DEF MoneyTyped
<1>7. CallsTyped'
  <2>1. DOMAIN call' = Calls
    BY DEF CallsTyped, MintDeposit, PaymentFailed, AttachOrder
  <2> QED BY <1>1, <1>4, <2>1 DEF CallsTyped, PcsOf, Idle, OrderPcs
<1>8. PaidOnce'
  BY <1>3, <1>4, <1>5 DEF PaidOnce, MoneyTyped, Orders
<1>9. NothingLost'
  BY <1>3, <1>4, <1>5 DEF NothingLost, Orders
<1> QED BY <1>6, <1>7, <1>8, <1>9

(* The claim: the one step that makes an order PAID.                       *)
LEMMA Claiming ==
  ASSUME Inv, UNCHANGED failures, NEW c \in Calls, Claim(c)
  PROVE  Inv'
<1> USE DEF Inv, CreditsMatchPayments, At
<1> DEFINE o == call[c].order
<1>1. o \in Orders /\ o \in paid /\ call[c].pc = "claim"
  BY DEF Claim, CallsTyped, OrderPcs
<1>2. CASE ~Claimable(o)
  <2>1. call'[c] = Idle /\ Touches(c) /\ UNCHANGED money
    BY <1>2 DEF Claim, Return, Go, money, CallsTyped, Touches
  <2> QED BY <1>1, <2>1, QuietStep DEF Idle, Busy, OrderPcs, MoneyTyped
<1>3. CASE Claimable(o)
  <2>1. /\ order' = [order EXCEPT ![o] = "PAID"] /\ UNCHANGED <<links, paid, credited>>
        /\ call' = [call EXCEPT ![c].pc = Purpose(o)]
    BY <1>3 DEF Claim, GoTo
  <2>2. /\ call'[c].pc = Purpose(o) /\ call'[c].order = o
        /\ \A d \in Calls : d # c => call'[d] = call[d]
    BY <2>1 DEF CallsTyped
  <2>3. order[o] = "PENDING" /\ o \notin credited
    BY <1>3, <1>1 DEF Claimable, PaidOnce
  <2>4. \A d \in Calls : ~Acting(d, o)
    BY <1>1, <2>3 DEF PaidOnce
  <2>5. \A d \in Calls, p \in Orders : Acting(d, p)' <=> Acting(d, p) \/ (d = c /\ p = o)
    BY <2>2, <1>1 DEF Acting, Purpose
  <2>6. MoneyTyped'
    BY <1>1, <2>1 DEF MoneyTyped
  <2>7. CallsTyped'
    <3>1. DOMAIN call' = Calls
      BY <2>1 DEF CallsTyped
    <3>2. Purpose(o) \in PcsOf(o) /\ Purpose(o) \notin {"attach", "claim"}
      BY <1>1 DEF Purpose, PcsOf, OrderPcs, Orders
    <3> QED BY <1>1, <2>1, <2>2, <3>1, <3>2 DEF CallsTyped, PcsOf
  <2>8. PaidOnce'
    <3>1. \A p \in Orders : order'[p] = IF p = o THEN "PAID" ELSE order[p]
      BY <2>1 DEF MoneyTyped
    <3> QED BY <1>1, <2>1, <2>3, <2>4, <2>5, <3>1 DEF PaidOnce, MoneyTyped, Orders
  <2>9. NothingLost'
    BY <1>1, <2>1, <2>5 DEF NothingLost, MoneyTyped, Orders
  <2> QED BY <2>6, <2>7, <2>8, <2>9
<1> QED BY <1>2, <1>3

LEMMA Crediting ==
  ASSUME Inv, UNCHANGED failures, NEW c \in Calls, Credit(c)
  PROVE  Inv'
<1> USE DEF Inv, CreditsMatchPayments, At
<1> DEFINE o == call[c].order
<1>1. o \in Deposits /\ call[c].pc = "credit" /\ Acting(c, o) /\ o \in Orders
  BY DEF Credit, CallsTyped, OrderPcs, PcsOf, Acting, Orders
<1>2. credited' = credited \cup {o} /\ UNCHANGED <<order, links, paid>>
  BY DEF Credit
<1>3. call'[c] = Idle /\ DOMAIN call' = Calls /\ \A d \in Calls : d # c => call'[d] = call[d]
  BY DEF Credit, Return, Go, CallsTyped
<1>4. \A d \in Calls, p \in Orders : Acting(d, p)' <=> Acting(d, p) /\ d # c
  BY <1>3 DEF Acting, Idle
<1>5. MoneyTyped'
  BY <1>1, <1>2 DEF MoneyTyped
<1>6. CallsTyped'
  BY <1>2, <1>3 DEF CallsTyped, Idle, PcsOf, OrderPcs
<1>7. PaidOnce'
  BY <1>1, <1>2, <1>4 DEF PaidOnce
<1>8. NothingLost'
  BY <1>1, <1>2, <1>4 DEF NothingLost, Acting, Orders
<1> QED BY <1>5, <1>6, <1>7, <1>8

(* A checkout is opened for a plan; its order is new.                      *)
LEMMA Opening ==
  ASSUME Inv, UNCHANGED failures, NEW c \in Calls, OpenCheckout(c)
  PROVE  Inv'
<1> USE DEF Inv, CreditsMatchPayments, At
<1>1. PICK o \in Checkouts :
        /\ order[o] = None /\ order' = [order EXCEPT ![o] = "PENDING"]
        /\ call' = [call EXCEPT ![c] = [pc |-> "attach", request |-> call[c].request, order |-> o]]
  BY DEF OpenCheckout, MayOpen, Go
<1>2. UNCHANGED <<links, paid, credited>> /\ call[c].pc = "checkout" /\ o \in Orders
  BY DEF OpenCheckout, Orders
<1>3. /\ call'[c].pc = "attach" /\ call'[c].order = o /\ DOMAIN call' = Calls
      /\ \A d \in Calls : d # c => call'[d] = call[d]
  BY <1>1 DEF CallsTyped
<1>4. \A d \in Calls, p \in Orders : Acting(d, p)' <=> Acting(d, p)
  BY <1>2, <1>3 DEF Acting
<1>5. /\ order' \in [Orders -> {None, "PENDING", "PAID", "FAILED"}]
      /\ \A p \in Orders : order'[p] = "PAID" <=> order[p] = "PAID"
  BY <1>1, <1>2 DEF MoneyTyped, None
<1>6. MoneyTyped'
  BY <1>2, <1>5 DEF MoneyTyped
<1>7. CallsTyped'
  BY <1>2, <1>3 DEF CallsTyped, PcsOf, OrderPcs
<1>8. PaidOnce'
  BY <1>2, <1>4, <1>5 DEF PaidOnce, MoneyTyped, Orders
<1>9. NothingLost'
  BY <1>2, <1>4, <1>5 DEF NothingLost, Orders
<1> QED BY <1>6, <1>7, <1>8, <1>9

(* confirmByOrder() found nothing, or goes on to confirm: a checkout is    *)
(* never in the wallet, so the call no longer acts on anything to lose.    *)
LEMMA Finding ==
  ASSUME Inv, UNCHANGED failures, NEW c \in Calls, FindByOrder(c)
  PROVE  Inv'
<1> USE DEF Inv, CreditsMatchPayments, At
<1>1. Touches(c) /\ call'[c].pc \in {"idle", "confirm"}
  <2>1. CASE Return(c)
    BY <2>1 DEF Return, Go, Idle, Touches, CallsTyped
  <2>2. CASE \E r \in Requests : Go(c, [pc |-> "confirm", request |-> r])
    BY <2>2 DEF Go, Touches, CallsTyped
  <2> QED BY <2>1, <2>2 DEF FindByOrder
<1>2. UNCHANGED money /\ call[c].pc = "find" /\ call[c].order \notin Deposits
  <2>1. call[c].pc = "find" /\ UNCHANGED money
    BY DEF FindByOrder
  <2> QED BY <2>1 DEF CallsTyped, OrderPcs, PcsOf
<1>3. DOMAIN call' = Calls /\ \A d \in Calls : d # c => call'[d] = call[d]
  BY <1>1 DEF Touches
<1>4. \A d \in Calls, p \in Orders : Acting(d, p)' <=> Acting(d, p) /\ d # c
  BY <1>1, <1>3 DEF Acting
<1>5. MoneyTyped'
  BY <1>2 DEF MoneyTyped, money
<1>6. CallsTyped'
  BY <1>1, <1>2, <1>3 DEF CallsTyped, PcsOf, OrderPcs, money
<1>7. PaidOnce'
  BY <1>2, <1>4 DEF PaidOnce, money
<1>8. NothingLost'
  BY <1>2, <1>4 DEF NothingLost, Acting, money, Orders
<1> QED BY <1>5, <1>6, <1>7, <1>8

(* Everything else the calls do concerns requests alone.                   *)
LEMMA PlanSteps ==
  ASSUME Inv, UNCHANGED failures, NEW c \in Calls,
         \/ AskPlan(c) \/ NoRowLeft(c) \/ NoCheckout(c) \/ ReadAgain(c)
         \/ ReadUser(c) \/ Grant(c) \/ Confirmed(c) \/ Rejected(c)
         \/ \E plan \in Plans : FindOpen(c, plan)
         \/ \E r \in Requests : AdminConfirms(c, r) \/ AdminRejects(c, r)
  PROVE  Inv'
<1> USE DEF At, Free, Go, GoTo, Return, Idle, Confirming, Settle
<1>1. UNCHANGED money /\ call[c].pc \notin {"credit", "find"}
  BY DEF AskPlan, NoRowLeft, NoCheckout, ReadAgain, ReadUser, Grant, Confirmed, Rejected,
         FindOpen, AdminConfirms, AdminRejects
<1>2. Touches(c) /\ call'[c].pc \notin Busy
  <2> USE DEF Busy, OrderPcs, Touches, CallsTyped, Inv, CreditsMatchPayments
  <2>1. CASE AskPlan(c)
    BY <2>1 DEF AskPlan
  <2>2. CASE NoRowLeft(c) \/ NoCheckout(c)
    BY <2>2 DEF NoRowLeft, NoCheckout
  <2>3. CASE ReadAgain(c) \/ ReadUser(c) \/ Grant(c) \/ Confirmed(c) \/ Rejected(c)
    BY <2>3 DEF ReadAgain, ReadUser, Grant, Confirmed, Rejected
  <2>4. CASE \E plan \in Plans : FindOpen(c, plan)
    BY <2>4 DEF FindOpen
  <2>5. CASE \E r \in Requests : AdminConfirms(c, r) \/ AdminRejects(c, r)
    BY <2>5 DEF AdminConfirms, AdminRejects
  <2> QED BY <2>1, <2>2, <2>3, <2>4, <2>5
<1>3. failures \in Nat
  BY DEF Inv, CreditsMatchPayments, MoneyTyped
<1> QED BY <1>1, <1>2, <1>3, QuietStep

LEMMA Failing ==
  ASSUME Inv, NEW c \in Calls, CallFails(c)
  PROVE  Inv'
<1>1. failures \in Nat /\ failures' = failures + 1
  BY DEF Inv, CreditsMatchPayments, MoneyTyped, CallFails
<1>2. call'[c] = Idle /\ Touches(c) /\ UNCHANGED money
  BY DEF Inv, CreditsMatchPayments, CallsTyped, CallFails, Return, Go, Touches
<1> QED BY <1>1, <1>2, QuietStep DEF Idle, Busy, OrderPcs

-----------------------------------------------------------------------------
LEMMA InitInv == Init => Inv
BY PaymentsAssumption
   DEF Init, Inv, CreditsMatchPayments, MoneyTyped, CallsTyped, PaidOnce, NothingLost,
       Acting, At, Idle, OrderPcs, Orders, None

LEMMA NextInv == Inv /\ [Next]_vars => Inv'
<1> SUFFICES ASSUME Inv, [Next]_vars PROVE Inv'
  OBVIOUS
<1>1. CASE UNCHANGED vars
  BY <1>1 DEF vars, money, Inv, CreditsMatchPayments, MoneyTyped, CallsTyped, PaidOnce,
              NothingLost, Acting, At, PcsOf
<1>2. ASSUME NEW c \in Calls, Begin(c), UNCHANGED failures PROVE Inv'
  <2>1. CASE \E o \in Orders : ReportPaid(c, o) \/ ReportFailed(c, o)
    BY <1>2, <2>1, Beginnings
  <2>2. CASE \E o \in Deposits : OpenDeposit(c, o)
    BY <1>2, <2>2, Beginnings DEF Orders
  <2>3. CASE \E plan \in Plans : FindOpen(c, plan)
    BY <1>2, <2>3, PlanSteps
  <2>4. CASE \E r \in Requests : AdminConfirms(c, r) \/ AdminRejects(c, r)
    BY <1>2, <2>4, PlanSteps
  <2> QED BY <1>2, <2>1, <2>2, <2>3, <2>4 DEF Begin
<1>3. ASSUME NEW c \in Calls, Continue(c), UNCHANGED failures PROVE Inv'
  BY <1>3, Endings, Claiming, Crediting, Opening, Finding, PlanSteps DEF Continue
<1>4. ASSUME NEW o \in Orders, PlayerPays(o), UNCHANGED failures PROVE Inv'
  BY <1>4, Paying
<1>5. ASSUME NEW c \in Calls, CallFails(c) PROVE Inv'
  BY <1>5, Failing
<1> QED BY <1>1, <1>2, <1>3, <1>4, <1>5 DEF Next, Succeeds

(* payment-orders.service.ts:139: whatever calls race or fail, a deposit   *)
(* is credited once, and only if its order was paid and claimed; and it is *)
(* credited unless a call failed.                                          *)
THEOREM DepositsAreCreditedOnce == Spec => []CreditsMatchPayments
BY InitInv, NextInv, PTL DEF Spec, Inv

-----------------------------------------------------------------------------
(* Plans *)

(* What a call that settles plans has in hand, whatever happens ...        *)
HasRequest == Settling \ {"ask"}
InHandTyped(c) ==
  LET s == call[c] IN
  /\ At(c, "ask") => s.plan \in Plans /\ s.open \in SUBSET Requests
  /\ s.pc \in HasRequest => s.request \in Requests
  /\ s.pc \in {"user", "grant"} => s.plan \in Plans
  /\ s.pc \in {"user", "grant", "settle", "reject"} => request[s.request].plan \in Plans
  /\ At(c, "grant") => s.from \in Nat
(* ... and as long as it is the only one at it: what it read is still so.  *)
StillSo(c) ==
  LET s == call[c] IN
  /\ At(c, "ask") => \A r \in s.open : Requested(r)
  /\ s.pc \in {"user", "grant", "settle", "reject"} => Requested(s.request)
  /\ s.pc \in {"user", "grant"} => s.plan = request[s.request].plan
  /\ At(c, "grant") => s.from = until
Alone == \A c, d \in Calls : c # d => call[c].pc \notin Settling \/ call[d].pc \notin Settling

(* The days of a request being confirmed are already there before it says  *)
(* so.                                                                     *)
DaysAddUp ==
  \/ (\A c \in Calls : ~At(c, "settle")) /\ until = Granted
  \/ \E c \in Calls : At(c, "settle") /\ until = Granted + Days[request[call[c].request].plan]

PlansInv ==
  /\ RowsTyped /\ \A r \in Requests : request[r].status # None => request[r].plan \in Plans
  /\ \A c \in Calls : InHandTyped(c)
  /\ ~overlapped => Alone
  /\ failures = 0 /\ ~overlapped => (\A c \in Calls : StillSo(c)) /\ DaysAddUp

LEMMA MaxIsMember ==
  ASSUME NEW S \in SUBSET Int, IsFiniteSet(S), S # {}
  PROVE  Max(S) \in S
<1> DEFINE Good == {s \in SUBSET S : s = {} \/ \E x \in s : \A y \in s : x >= y}
<1>1. ASSUME NEW s \in SUBSET S, \A t \in SUBSET s : t # s => t \in Good
      PROVE  s \in Good
  <2> SUFFICES ASSUME s # {} PROVE \E x \in s : \A y \in s : x >= y
    OBVIOUS
  <2>1. PICK x \in s : TRUE OBVIOUS
  <2>2. s \ {x} \in Good BY <1>1, <2>1
  <2>3. CASE s \ {x} = {} BY <2>1, <2>3
  <2>4. CASE s \ {x} # {}
    <3>1. PICK z \in s \ {x} : \A y \in s \ {x} : z >= y BY <2>2, <2>4
    <3>2. CASE x >= z
      <4>1. \A y \in s : x >= y BY <3>1, <3>2
      <4> QED BY <4>1
    <3>3. CASE ~(x >= z)
      <4>1. \A y \in s : z >= y BY <3>1, <3>3
      <4> QED BY <3>1, <4>1
    <3> QED BY <3>2, <3>3
  <2> QED BY <2>3, <2>4
<1>2. \A s \in SUBSET S : s \in Good
  <2> HIDE DEF Good
  <2> QED BY <1>1, SubsetInduction
<1>3. S \in Good BY <1>2
<1>4. \E x \in S : \A y \in S : x >= y BY <1>3
<1> QED BY <1>4 DEF Max

(* The days granted by requests in status f are a sum.                     *)
Settled(f) == {r \in Requests : f[r].status = "CONFIRMED"}
PlanDays(f) == [r \in Settled(f) |-> Days[f[r].plan]]
LEMMA GrantedIsSum ==
  /\ Granted = SumFunctionOnSet(PlanDays(request), Settled(request))
  /\ Granted' = SumFunctionOnSet(PlanDays(request'), Settled(request'))
<1>1. Granted = SumFunctionOnSet(PlanDays(request), Settled(request))
  BY ZenonT(40) DEF Granted, PlanDays, Settled, MapThenSumSet, SumFunctionOnSet, FoldFunctionOnSet,
         MapThenFoldSet
<1>2. Granted' = SumFunctionOnSet(PlanDays(request'), Settled(request'))
  BY ZenonT(40) DEF Granted, PlanDays, Settled, MapThenSumSet, SumFunctionOnSet, FoldFunctionOnSet,
         MapThenFoldSet
<1> QED BY <1>1, <1>2

(* What a settled request granted does not change, and it grants days.     *)
LEMMA SettledGrant ==
  ASSUME NEW f, \A r \in Settled(f) : f[r].plan \in Plans
  PROVE  /\ IsFiniteSet(Settled(f))
         /\ \A r \in Settled(f) : PlanDays(f)[r] = Days[f[r].plan] /\ PlanDays(f)[r] \in Nat
         /\ \A r \in Settled(f) : PlanDays(f)[r] \in Int
<1>1. IsFiniteSet(Settled(f)) BY FS_Subset, PaymentsAssumption DEF Settled
<1>2. \A r \in Settled(f) : Days[f[r].plan] \in Nat BY PaymentsAssumption
<1> QED BY <1>1, <1>2 DEF PlanDays

LEMMA GrantedStays ==
  ASSUME NEW f, NEW g, \A r \in Settled(f) : f[r].plan \in Plans,
         Settled(g) = Settled(f), \A r \in Settled(f) : g[r].plan = f[r].plan
  PROVE  SumFunctionOnSet(PlanDays(f), Settled(f)) = SumFunctionOnSet(PlanDays(g), Settled(g))
<1>1. \A r \in Settled(f) : PlanDays(f)[r] = PlanDays(g)[r] BY DEF PlanDays
<1> QED BY <1>1, SettledGrant, SumSame

LEMMA GrantedGrows ==
  ASSUME NEW f, NEW g, NEW r \in Requests, r \notin Settled(f), f[r].plan \in Plans,
         \A q \in Settled(f) : f[q].plan \in Plans,
         Settled(g) = Settled(f) \cup {r}, \A q \in Settled(g) : g[q].plan = f[q].plan
  PROVE  SumFunctionOnSet(PlanDays(g), Settled(g))
           = SumFunctionOnSet(PlanDays(f), Settled(f)) + Days[f[r].plan]
<1>1. \A q \in Settled(g) : g[q].plan \in Plans OBVIOUS
<1>2. /\ PlanDays(g)[r] = Days[f[r].plan] /\ PlanDays(g)[r] \in Int
      /\ \A q \in Settled(g) : PlanDays(g)[q] \in Int
  BY <1>1, SettledGrant
<1>3. SumFunctionOnSet(PlanDays(g), Settled(f) \cup {r})
        = PlanDays(g)[r] + SumFunctionOnSet(PlanDays(g), Settled(f))
  BY <1>2, SettledGrant, SumIn
<1>4. SumFunctionOnSet(PlanDays(g), Settled(f)) = SumFunctionOnSet(PlanDays(f), Settled(f))
  <2>1. \A q \in Settled(f) : PlanDays(g)[q] = PlanDays(f)[q] BY DEF PlanDays
  <2> QED BY <2>1, SettledGrant, SumSame
<1>5. SumFunctionOnSet(PlanDays(f), Settled(f)) \in Int BY SettledGrant, SumType
<1> QED BY <1>2, <1>3, <1>4, <1>5

Overlaps == overlapped' = (overlapped \/ \E c, d \in Calls :
                             c # d /\ call'[c].pc \in Settling /\ call'[d].pc \in Settling)
LEMMA AloneUnlessOverlapped ==
  ASSUME PlansInv, Overlaps
  PROVE  overlapped' \in BOOLEAN /\ (~overlapped' => ~overlapped /\ Alone /\ Alone')
BY DEF PlansInv, Overlaps, Alone

(* A call that goes on without writing a row.                              *)
LEMMA ReadingKeepsPlans ==
  ASSUME PlansInv, Overlaps, failures' = failures, UNCHANGED rows,
         NEW c \in Calls, Touches(c), ~At(c, "settle"), ~At(c, "settle")', InHandTyped(c)',
         (\A d \in Calls : StillSo(d)) => StillSo(c)'
  PROVE  PlansInv'
<1>1. /\ \A d \in Calls : d # c => call'[d] = call[d]
      /\ request' = request /\ until' = until
  BY DEF Touches, rows
<1>2. RowsTyped' /\ \A r \in Requests : request'[r].status # None => request'[r].plan \in Plans
  BY <1>1, AloneUnlessOverlapped DEF PlansInv, RowsTyped
<1>3. \A d \in Calls : InHandTyped(d)'
  <2> SUFFICES ASSUME NEW d \in Calls, d # c PROVE InHandTyped(d)'
    OBVIOUS
  <2>1. InHandTyped(d) BY DEF PlansInv
  <2> QED BY <1>1, <2>1 DEF InHandTyped, At
<1>4. ASSUME failures' = 0, ~overlapped' PROVE (\A d \in Calls : StillSo(d)') /\ DaysAddUp'
  <2>1. (\A d \in Calls : StillSo(d)) /\ DaysAddUp
    BY <1>4, AloneUnlessOverlapped DEF PlansInv
  <2>2. \A d \in Calls : StillSo(d)'
    <3> SUFFICES ASSUME NEW d \in Calls, d # c PROVE StillSo(d)'
      BY <2>1
    <3>1. StillSo(d) BY <2>1
    <3> QED BY <1>1, <3>1 DEF StillSo, At, Requested
  <2>3. \A d \in Calls : /\ At(d, "settle") <=> At(d, "settle")'
                         /\ At(d, "settle") => call'[d].request = call[d].request
    BY <1>1 DEF At
  <2>4. Granted' = Granted BY <1>1, GrantedIsSum
  <2> QED BY <1>1, <2>1, <2>2, <2>3, <2>4 DEF DaysAddUp
<1> QED BY <1>2, <1>3, <1>4, AloneUnlessOverlapped DEF PlansInv

(* A call that settles plans alone leaves the others where they were.      *)
LEMMA WritingKeepsPlans ==
  ASSUME PlansInv, Overlaps, failures' = failures, NEW c \in Calls, Touches(c),
         call[c].pc \in Settling, InHandTyped(c)',
         request' \in [Requests -> [status : {None, "REQUESTED", "CONFIRMED", "REJECTED"},
                                    plan : Plans \cup {None}, order : Checkouts \cup {None}]],
         until' \in Nat, \A r \in Requests : request'[r].status # None => request'[r].plan \in Plans,
         \A r \in Requests : request[r].plan \in Plans => request'[r].plan \in Plans,
         ASSUME Alone, \A d \in Calls : StillSo(d), DaysAddUp
         PROVE  /\ StillSo(c)'
                /\ IF At(c, "settle")'
                   THEN until' = Granted' + Days[request'[call'[c].request].plan]
                   ELSE until' = Granted'
  PROVE  PlansInv'
<1>1. \A d \in Calls : d # c => call'[d] = call[d] BY DEF Touches
<1>2. RowsTyped' BY AloneUnlessOverlapped DEF RowsTyped
<1>3. \A d \in Calls : InHandTyped(d)'
  <2> SUFFICES ASSUME NEW d \in Calls, d # c PROVE InHandTyped(d)'
    OBVIOUS
  <2>1. InHandTyped(d) BY DEF PlansInv
  <2> QED BY <1>1, <2>1 DEF InHandTyped, At, HasRequest, Settling
<1>4. ASSUME failures' = 0, ~overlapped' PROVE (\A d \in Calls : StillSo(d)') /\ DaysAddUp'
  <2>1. Alone /\ (\A d \in Calls : StillSo(d)) /\ DaysAddUp
    BY <1>4, AloneUnlessOverlapped DEF PlansInv
  <2>2. \A d \in Calls : d # c => call'[d].pc \notin Settling BY <1>1, <2>1 DEF Alone
  <2>3. \A d \in Calls : d # c => StillSo(d)' /\ ~At(d, "settle")'
    BY <2>2 DEF StillSo, At, Settling
  <2>4. /\ StillSo(c)'
        /\ IF At(c, "settle")' THEN until' = Granted' + Days[request'[call'[c].request].plan]
                               ELSE until' = Granted'
    BY <2>1
  <2> QED BY <2>3, <2>4 DEF DaysAddUp
<1> QED BY <1>2, <1>3, <1>4, AloneUnlessOverlapped DEF PlansInv

(* Calls on orders hold no request; a call that ends holds nothing.        *)
LEMMA OrdersKeepPlans ==
  ASSUME Inv, PlansInv, Overlaps, failures' = failures, NEW c \in Calls,
         \/ \E o \in Orders : OpenDeposit(c, o) \/ ReportPaid(c, o) \/ ReportFailed(c, o)
         \/ MintDeposit(c) \/ PaymentFailed(c) \/ Claim(c) \/ Credit(c)
         \/ NoRowLeft(c) \/ NoCheckout(c)
  PROVE  PlansInv'
<1>1. UNCHANGED rows /\ ~At(c, "settle")
  BY DEF OpenDeposit, ReportPaid, ReportFailed, MintDeposit, PaymentFailed, Claim, Credit, NoRowLeft,
         NoCheckout, Free, At
<1>2. DOMAIN call = Calls BY DEF Inv, CreditsMatchPayments, CallsTyped
<1>3. Touches(c) /\ call'[c].pc \in OrderPcs \cup {"idle"}
  <2>1. CASE Claim(c) /\ Claimable(call[c].order)
    <3>1. call' = [call EXCEPT ![c].pc = Purpose(call[c].order)] BY <2>1 DEF Claim, GoTo
    <3> QED BY <1>2, <3>1 DEF Touches, Purpose, OrderPcs
  <2>2. CASE ~(Claim(c) /\ Claimable(call[c].order))
    <3>1. Return(c) \/ \E o, pc : pc \in OrderPcs /\ Go(c, [pc |-> pc, order |-> o])
      BY <2>2 DEF OpenDeposit, ReportPaid, ReportFailed, MintDeposit, PaymentFailed, Claim, Credit,
                  NoRowLeft, NoCheckout, OrderPcs
    <3>2. CASE Return(c) BY <1>2, <3>2 DEF Return, Go, Idle, Touches
    <3>3. ASSUME NEW o, NEW pc \in OrderPcs, Go(c, [pc |-> pc, order |-> o])
          PROVE  Touches(c) /\ call'[c].pc \in OrderPcs
      BY <1>2, <3>3 DEF Go, Touches
    <3> QED BY <3>1, <3>2, <3>3
  <2> QED BY <2>1, <2>2
<1>4. InHandTyped(c)' /\ StillSo(c)' /\ ~At(c, "settle")'
  BY <1>3 DEF InHandTyped, StillSo, HasRequest, Settling, OrderPcs, At
<1> QED BY <1>1, <1>3, <1>4, ReadingKeepsPlans

(* What the calls on plans read.                                           *)
LEMMA ReadsKeepPlans ==
  ASSUME Inv, PlansInv, Overlaps, failures' = failures, NEW c \in Calls,
         \/ \E plan \in Plans : FindOpen(c, plan)
         \/ \E r \in Requests : AdminConfirms(c, r) \/ AdminRejects(c, r)
         \/ OpenCheckout(c) \/ FindByOrder(c) \/ ReadAgain(c) \/ ReadUser(c)
  PROVE  PlansInv'
<1>1. UNCHANGED rows /\ ~At(c, "settle")
  BY DEF FindOpen, AdminConfirms, AdminRejects, OpenCheckout, FindByOrder, ReadAgain, ReadUser,
         Free, At
<1>2. DOMAIN call = Calls /\ RowsTyped /\ InHandTyped(c)
  BY DEF Inv, CreditsMatchPayments, CallsTyped, PlansInv
<1>3. ASSUME NEW s, Go(c, s)
      PROVE  Touches(c) /\ call'[c] = s
  BY <1>2, <1>3 DEF Go, Touches
<1>4. request' = request /\ until' = until BY <1>1 DEF rows
<1>5. ASSUME NEW r \in Requests, Requested(r), Go(c, Confirming(r)) PROVE PlansInv'
  <2>1. Touches(c) /\ call'[c] = [pc |-> "user", request |-> r, plan |-> request[r].plan]
    BY <1>3, <1>5 DEF Confirming
  <2>2. request[r].plan \in Plans BY <1>5 DEF PlansInv, Requested, None
  <2>3. InHandTyped(c)' /\ ~At(c, "settle")'
    BY <1>4, <2>1, <2>2 DEF InHandTyped, At, HasRequest, Settling
  <2>4. StillSo(c)' BY <1>4, <1>5, <2>1 DEF StillSo, At, Requested
  <2> QED BY <1>1, <2>1, <2>3, <2>4, ReadingKeepsPlans
<1>6. ASSUME NEW plan \in Plans, FindOpen(c, plan) PROVE PlansInv'
  <2> DEFINE open == IF Open = {} THEN {} ELSE {Max(Open)}
  <2>1. Touches(c) /\ call'[c].pc = "ask" /\ call'[c].plan = plan /\ call'[c].open = open
    BY <1>2, <1>6 DEF FindOpen, Go, Touches
  <2>2. open \subseteq Open
    <3>1. Open \in SUBSET Requests BY DEF Open
    <3>2. Requests \in SUBSET Int /\ IsFiniteSet(Requests) BY PaymentsAssumption
    <3>3. IsFiniteSet(Open) BY <3>1, <3>2, FS_Subset
    <3> QED BY <3>1, <3>2, <3>3, MaxIsMember
  <2>3. open \subseteq Requests /\ \A r \in open : Requested(r) BY <2>2 DEF Open, Requested
  <2> HIDE DEF open
  <2>4. InHandTyped(c)' /\ ~At(c, "settle")'
    BY <1>6, <2>1, <2>3 DEF InHandTyped, At, HasRequest, Settling
  <2>5. StillSo(c)' BY <1>4, <2>1, <2>3 DEF StillSo, At, Requested
  <2> QED BY <1>1, <2>1, <2>4, <2>5, ReadingKeepsPlans
<1>7. ASSUME NEW r \in Requests, AdminRejects(c, r) PROVE PlansInv'
  <2>1. Touches(c) /\ call'[c] = [pc |-> "reject", request |-> r] /\ Requested(r)
    BY <1>3, <1>7 DEF AdminRejects
  <2>2. request[r].plan \in Plans BY <2>1 DEF PlansInv, Requested, None
  <2>3. InHandTyped(c)' /\ ~At(c, "settle")' /\ StillSo(c)'
    BY <1>4, <2>1, <2>2 DEF InHandTyped, StillSo, At, HasRequest, Settling, Requested
  <2> QED BY <1>1, <2>1, <2>3, ReadingKeepsPlans
<1>8. CASE OpenCheckout(c)
  <2>1. PICK o : Go(c, [pc |-> "attach", request |-> call[c].request, order |-> o])
    BY <1>8 DEF OpenCheckout
  <2>2. Touches(c) /\ call'[c].pc = "attach" /\ call'[c].request = call[c].request
    BY <1>3, <2>1
  <2>3. call[c].request \in Requests BY <1>2, <1>8 DEF OpenCheckout, InHandTyped, HasRequest, Settling, At
  <2>4. InHandTyped(c)' /\ ~At(c, "settle")' /\ StillSo(c)'
    BY <2>2, <2>3 DEF InHandTyped, StillSo, At, HasRequest, Settling
  <2> QED BY <1>1, <2>2, <2>4, ReadingKeepsPlans
<1>9. CASE FindByOrder(c) \/ ReadAgain(c)
  <2>1. ASSUME Return(c) PROVE PlansInv'
    <3>1. Touches(c) /\ call'[c] = Idle BY <1>3, <2>1 DEF Return
    <3>2. InHandTyped(c)' /\ ~At(c, "settle")' /\ StillSo(c)'
      BY <3>1 DEF InHandTyped, StillSo, At, HasRequest, Settling, Idle
    <3> QED BY <1>1, <3>1, <3>2, ReadingKeepsPlans
  <2>2. ASSUME NEW r \in Requests, Go(c, [pc |-> "confirm", request |-> r]) PROVE PlansInv'
    <3>1. Touches(c) /\ call'[c] = [pc |-> "confirm", request |-> r] BY <1>3, <2>2
    <3>2. InHandTyped(c)' /\ ~At(c, "settle")' /\ StillSo(c)'
      BY <3>1 DEF InHandTyped, StillSo, At, HasRequest, Settling
    <3> QED BY <1>1, <3>1, <3>2, ReadingKeepsPlans
  <2>3. CASE FindByOrder(c) BY <2>1, <2>2, <2>3 DEF FindByOrder
  <2>4. CASE ReadAgain(c)
    <3>1. call[c].request \in Requests BY <1>2, <2>4 DEF ReadAgain, InHandTyped, HasRequest, Settling, At
    <3> QED BY <1>5, <2>1, <2>4, <3>1 DEF ReadAgain
  <2> QED BY <1>9, <2>3, <2>4
<1>10. CASE ReadUser(c)
  <2>1. /\ Touches(c) /\ call'[c].pc = "grant" /\ call'[c].request = call[c].request
        /\ call'[c].plan = call[c].plan /\ call'[c].from = until
    BY <1>3, <1>10 DEF ReadUser, From
  <2>2. call[c].pc = "user" BY <1>10 DEF ReadUser, At
  <2>3. InHandTyped(c)' /\ ~At(c, "settle")'
    BY <1>2, <1>4, <2>1, <2>2 DEF RowsTyped, InHandTyped, At, HasRequest, Settling
  <2>4. StillSo(c) => StillSo(c)' BY <1>4, <2>1, <2>2 DEF StillSo, At, Requested
  <2> QED BY <1>1, <2>1, <2>3, <2>4, ReadingKeepsPlans
<1> QED BY <1>5, <1>6, <1>7, <1>8, <1>9, <1>10 DEF AdminConfirms

RequestRow == [status : {None, "REQUESTED", "CONFIRMED", "REJECTED"},
               plan : Plans \cup {None}, order : Checkouts \cup {None}]
PlansKnown(f) == \A r \in Requests : f[r].status # None => f[r].plan \in Plans
LEMMA SettledKnown ==
  ASSUME NEW f, PlansKnown(f)
  PROVE  \A r \in Settled(f) : f[r].plan \in Plans
BY DEF PlansKnown, Settled, None

(* requestSubscription() writes a new row or retargets an open one.        *)
LEMMA AskingKeepsPlans ==
  ASSUME Inv, PlansInv, Overlaps, failures' = failures, NEW c \in Calls, AskPlan(c)
  PROVE  PlansInv'
<1> DEFINE s == call[c]
<1>1. DOMAIN call = Calls /\ request \in [Requests -> RequestRow] /\ until \in Nat
      /\ PlansKnown(request) /\ InHandTyped(c)
  BY DEF Inv, CreditsMatchPayments, CallsTyped, PlansInv, RowsTyped, RequestRow, PlansKnown
<1>2. s.pc = "ask" /\ s.plan \in Plans /\ s.open \in SUBSET Requests /\ until' = until
  BY <1>1 DEF AskPlan, At, InHandTyped
<1>3. PICK r \in Row(c) :
        /\ request' = [request EXCEPT ![r] =
             IF s.open = {} THEN [status |-> "REQUESTED", plan |-> s.plan, order |-> None]
             ELSE IF s.same THEN @ ELSE [@ EXCEPT !.plan = s.plan]]
        /\ Return(c) \/ Go(c, [pc |-> "checkout", request |-> r])
  BY DEF AskPlan
<1>4. r \in Requests /\ (s.open # {} => r \in s.open) /\ (s.open = {} => request[r].status = None)
  BY <1>2 DEF Row
<1>5. Touches(c) /\ (call'[c] = Idle \/ call'[c] = [pc |-> "checkout", request |-> r])
  BY <1>1, <1>3 DEF Return, Go, Touches
<1>6. InHandTyped(c)' /\ StillSo(c)' /\ ~At(c, "settle")'
  BY <1>4, <1>5 DEF InHandTyped, StillSo, HasRequest, Settling, At, Idle
<1>7. /\ request' \in [Requests -> RequestRow] /\ PlansKnown(request')
      /\ \A q \in Requests : request[q].plan \in Plans => request'[q].plan \in Plans
  <2>1. [status |-> "REQUESTED", plan |-> s.plan, order |-> None] \in RequestRow
        /\ [request[r] EXCEPT !.plan = s.plan] \in RequestRow
        /\ [request[r] EXCEPT !.plan = s.plan].plan = s.plan
    BY <1>1, <1>2, <1>4 DEF RequestRow
  <2> QED BY <1>1, <1>2, <1>3, <1>4, <2>1 DEF PlansKnown
<1>8. ASSUME Alone, \A d \in Calls : StillSo(d), DaysAddUp PROVE until' = Granted'
  <2>1. \A d \in Calls : ~At(d, "settle") BY <1>2, <1>8 DEF Alone, At, Settling
  <2>2. until = Granted BY <2>1, <1>8 DEF DaysAddUp
  <2>3. request[r].status # "CONFIRMED" /\ request'[r].status # "CONFIRMED"
    <3>1. s.open # {} => request[r].status = "REQUESTED"
      BY <1>2, <1>4, <1>8 DEF StillSo, At, Requested
    <3>2. request[r] \in RequestRow BY <1>1, <1>4
    <3> QED BY <1>1, <1>3, <1>4, <3>1, <3>2 DEF RequestRow, None
  <2>4. \A q \in Requests : q # r => request'[q] = request[q] BY <1>1, <1>3
  <2>5. Settled(request') = Settled(request)
        /\ \A q \in Settled(request) : request'[q].plan = request[q].plan
    BY <2>3, <2>4 DEF Settled
  <2>6. Granted' = Granted BY <1>1, <2>5, SettledKnown, GrantedStays, GrantedIsSum
  <2> QED BY <1>2, <2>2, <2>6
<1>9. s.pc \in Settling BY <1>2 DEF Settling
<1> HIDE DEF s
<1> QED BY <1>1, <1>2, <1>5, <1>6, <1>7, <1>8, <1>9, WritingKeepsPlans DEF s, RequestRow, PlansKnown

(* attachOrder(), confirm() and reject() write the row they were asked for.*)
LEMMA SettlingKeepsPlans ==
  ASSUME Inv, PlansInv, Overlaps, failures' = failures, NEW c \in Calls,
         AttachOrder(c) \/ Grant(c) \/ Confirmed(c) \/ Rejected(c)
  PROVE  PlansInv'
<1> DEFINE r == call[c].request
<1>1. DOMAIN call = Calls /\ request \in [Requests -> RequestRow] /\ until \in Nat
      /\ PlansKnown(request) /\ InHandTyped(c)
  BY DEF Inv, CreditsMatchPayments, CallsTyped, PlansInv, RowsTyped, RequestRow, PlansKnown
<1>2. call[c].pc \in {"attach", "grant", "settle", "reject"}
  BY DEF AttachOrder, Grant, Confirmed, Rejected, At
<1>3. call[c].pc \in Settling /\ r \in Requests
  BY <1>1, <1>2 DEF InHandTyped, HasRequest, Settling
<1>4. Return(c) \/ (Grant(c) /\ Go(c, [pc |-> "settle", request |-> r]))
  BY DEF AttachOrder, Grant, Confirmed, Rejected, Settle
<1>5. /\ Touches(c)
      /\ call'[c] = Idle \/ (Grant(c) /\ call'[c] = [pc |-> "settle", request |-> r])
  BY <1>1, <1>4 DEF Return, Go, Touches
<1>6. InHandTyped(c)'
  <2>1. CASE call'[c] = Idle BY <2>1 DEF InHandTyped, HasRequest, Settling, At, Idle
  <2>2. CASE Grant(c) /\ call'[c] = [pc |-> "settle", request |-> r]
    <3>1. call[c].pc = "grant" /\ request' = request BY <2>2 DEF Grant, At
    <3>2. request'[r].plan \in Plans BY <1>1, <3>1 DEF InHandTyped
    <3>3. call'[c].pc = "settle" /\ call'[c].request = r BY <2>2
    <3> HIDE DEF r
    <3> QED BY <1>3, <3>2, <3>3 DEF InHandTyped, At
  <2> QED BY <1>5, <2>1, <2>2
<1>7. /\ request' \in [Requests -> RequestRow] /\ until' \in Nat /\ PlansKnown(request')
      /\ \A q \in Requests : q # r => request'[q] = request[q]
      /\ request'[r].plan = request[r].plan
  <2>1. CASE AttachOrder(c)
    <3>1. call[c].order \in Checkouts /\ until' = until
          /\ request' = [request EXCEPT ![r].order = call[c].order]
      BY <2>1 DEF AttachOrder, Inv, CreditsMatchPayments, CallsTyped
    <3> QED BY <1>1, <1>3, <3>1 DEF RequestRow, PlansKnown
  <2>2. CASE Grant(c)
    <3>1. until' = call[c].from + Days[call[c].plan] /\ request' = request
      BY <2>2 DEF Grant
    <3>2. call[c].from \in Nat /\ call[c].plan \in Plans
      BY <1>1, <2>2 DEF Grant, InHandTyped, At
    <3> QED BY <1>1, <3>1, <3>2, PaymentsAssumption
  <2>3. CASE Confirmed(c) \/ Rejected(c)
    <3>1. PICK decided \in {"CONFIRMED", "REJECTED"} :
            request' = [request EXCEPT ![r].status = decided]
      BY <2>3 DEF Confirmed, Rejected, Settle
    <3>2. until' = until /\ request[r].plan \in Plans
      BY <1>1, <2>3 DEF Confirmed, Rejected, Settle, At, InHandTyped
    <3> QED BY <1>1, <1>3, <3>1, <3>2 DEF RequestRow, PlansKnown
  <2> QED BY <2>1, <2>2, <2>3 DEF Confirmed
<1>8. ASSUME Alone, \A d \in Calls : StillSo(d), DaysAddUp
      PROVE  /\ StillSo(c)'
             /\ IF At(c, "settle")'
                THEN until' = Granted' + Days[request'[call'[c].request].plan]
                ELSE until' = Granted'
  <2>1. StillSo(c) BY <1>8
  <2>2. \A d \in Calls : d # c => ~At(d, "settle") BY <1>3, <1>8 DEF Alone, At, Settling
  <2>3. CASE AttachOrder(c)
    <3>1. until' = until /\ request' = [request EXCEPT ![r].order = call[c].order] /\ call'[c] = Idle
          /\ ~At(c, "settle")
      BY <1>5, <2>3 DEF AttachOrder, Grant, At
    <3>2. Settled(request') = Settled(request)
          /\ \A q \in Settled(request) : request'[q].plan = request[q].plan
      BY <1>1, <1>3, <3>1 DEF Settled, RequestRow
    <3>3. Granted' = Granted BY <1>1, <3>2, SettledKnown, GrantedStays, GrantedIsSum
    <3>4. until = Granted BY <2>2, <3>1, <1>8 DEF DaysAddUp
    <3> QED BY <3>1, <3>3, <3>4 DEF StillSo, At, Idle
  <2>4. CASE Grant(c)
    <3>1. /\ until' = call[c].from + Days[call[c].plan] /\ request' = request
          /\ call'[c] = [pc |-> "settle", request |-> r] /\ call[c].pc = "grant"
      BY <1>1, <2>4 DEF Grant, At, Go
    <3>2. call[c].from = until /\ call[c].plan = request[r].plan /\ Requested(r)
      BY <2>1, <3>1 DEF StillSo, At
    <3>3. until = Granted /\ Granted' = Granted
      BY <1>8, <2>2, <3>1, GrantedIsSum DEF DaysAddUp, At
    <3> QED BY <3>1, <3>2, <3>3 DEF StillSo, At, Requested
  <2>5. CASE Confirmed(c)
    <3>1. /\ until' = until /\ request' = [request EXCEPT ![r].status = "CONFIRMED"]
          /\ call'[c] = Idle /\ At(c, "settle")
      BY <1>1, <2>5 DEF Confirmed, Settle, Return, Go
    <3>2. until = Granted + Days[request[r].plan] BY <1>8, <2>2, <3>1 DEF DaysAddUp
    <3>3. Requested(r) /\ request[r].plan \in Plans
      BY <1>1, <2>1, <3>1 DEF StillSo, InHandTyped, At
    <3>4. /\ Settled(request') = Settled(request) \cup {r} /\ r \notin Settled(request)
          /\ \A q \in Settled(request') : request'[q].plan = request[q].plan
      BY <1>1, <1>3, <3>1, <3>3 DEF Settled, RequestRow, Requested
    <3>5. Granted' = Granted + Days[request[r].plan]
      <4>1. \A q \in Settled(request) : request[q].plan \in Plans BY <1>1, SettledKnown
      <4>2. SumFunctionOnSet(PlanDays(request'), Settled(request'))
              = SumFunctionOnSet(PlanDays(request), Settled(request)) + Days[request[r].plan]
        <5> HIDE DEF r
        <5> QED BY <1>3, <3>3, <3>4, <4>1, GrantedGrows
      <4> QED BY <4>2, GrantedIsSum
    <3> QED BY <3>1, <3>2, <3>5 DEF StillSo, At, Idle
  <2>6. CASE Rejected(c)
    <3>1. /\ until' = until /\ request' = [request EXCEPT ![r].status = "REJECTED"]
          /\ call'[c] = Idle /\ At(c, "reject")
      BY <1>1, <2>6 DEF Rejected, Settle, Return, Go
    <3>2. until = Granted BY <1>8, <2>2, <3>1 DEF DaysAddUp, At
    <3>3. Requested(r) BY <2>1, <3>1 DEF StillSo, At
    <3>4. Settled(request') = Settled(request)
          /\ \A q \in Settled(request) : request'[q].plan = request[q].plan
      BY <1>1, <1>3, <3>1, <3>3 DEF Settled, RequestRow, Requested
    <3>5. Granted' = Granted BY <1>1, <3>4, SettledKnown, GrantedStays, GrantedIsSum
    <3> QED BY <3>1, <3>2, <3>5 DEF StillSo, At, Idle
  <2> QED BY <2>3, <2>4, <2>5, <2>6
<1>9. \A q \in Requests : request[q].plan \in Plans => request'[q].plan \in Plans
  BY <1>7
<1> HIDE DEF r
<1> QED BY <1>3, <1>5, <1>6, <1>7, <1>8, <1>9, WritingKeepsPlans DEF RequestRow, PlansKnown

LEMMA PlansInit == Init => PlansInv
<1> SUFFICES ASSUME Init PROVE PlansInv
  OBVIOUS
<1>1. RowsTyped /\ PlansKnown(request) BY DEF Init, RowsTyped, NoRequest, PlansKnown
<1>2. \A c \in Calls : call[c] = Idle /\ call[c].pc = "idle" BY DEF Init, Idle
<1>3. \A c \in Calls : InHandTyped(c) /\ StillSo(c) /\ ~At(c, "settle")
  BY <1>2 DEF InHandTyped, StillSo, At, HasRequest, Settling
<1>4. Alone BY <1>2 DEF Alone, Settling
<1>5. Granted = 0
  <2>1. Settled(request) = {} BY DEF Init, NoRequest, Settled, None
  <2> QED BY <2>1, GrantedIsSum, SumEmpty
<1>6. until = 0 BY DEF Init
<1> QED BY <1>1, <1>3, <1>4, <1>5, <1>6 DEF PlansInv, PlansKnown, DaysAddUp

LEMMA PlansNext == Inv /\ PlansInv /\ [Next]_vars => PlansInv'
<1> SUFFICES ASSUME Inv, PlansInv, [Next]_vars PROVE PlansInv'
  OBVIOUS
<1>1. CASE UNCHANGED vars
  <2>1. UNCHANGED <<request, until, call, failures, overlapped>>
    BY <1>1 DEF vars, rows
  <2>2. Granted' = Granted BY <2>1, GrantedIsSum
  <2> QED BY <2>1, <2>2 DEF PlansInv, RowsTyped, InHandTyped, StillSo, Requested, At, Alone, DaysAddUp
<1>2. CASE Next
  <2>1. Overlaps BY <1>2 DEF Next, Overlaps
  <2>2. ASSUME NEW c \in Calls, Begin(c) \/ Continue(c), failures' = failures PROVE PlansInv'
    <3>1. Begin(c) => \/ \E o \in Orders : OpenDeposit(c, o) \/ ReportPaid(c, o) \/ ReportFailed(c, o)
                      \/ \E plan \in Plans : FindOpen(c, plan)
                      \/ \E r \in Requests : AdminConfirms(c, r) \/ AdminRejects(c, r)
      BY DEF Begin, Orders
    <3> QED BY <2>1, <2>2, <3>1, OrdersKeepPlans, ReadsKeepPlans, AskingKeepsPlans,
               SettlingKeepsPlans DEF Continue
  <2>3. ASSUME NEW o \in Orders, PlayerPays(o), failures' = failures PROVE PlansInv'
    <3>1. UNCHANGED <<request, until, call>> BY <2>3 DEF PlayerPays, rows
    <3>2. Granted' = Granted BY <3>1, GrantedIsSum
    <3> QED BY <2>1, <2>3, <3>1, <3>2, AloneUnlessOverlapped
          DEF PlansInv, RowsTyped, InHandTyped, StillSo, Requested, At, DaysAddUp
  <2>4. ASSUME NEW c \in Calls, CallFails(c) PROVE PlansInv'
    <3>1. /\ UNCHANGED <<request, until>> /\ call' = [call EXCEPT ![c] = Idle]
          /\ failures' = failures + 1 /\ failures \in Nat /\ DOMAIN call = Calls
      BY <2>4 DEF CallFails, Return, Go, rows, Inv, CreditsMatchPayments, MoneyTyped, CallsTyped
    <3>2. \A d \in Calls : InHandTyped(d)'
      <4> TAKE d \in Calls
      <4>1. InHandTyped(d) BY DEF PlansInv
      <4>2. call'[d] = call[d] \/ call'[d] = Idle BY <3>1
      <4> QED BY <3>1, <4>1, <4>2 DEF InHandTyped, At, Idle, HasRequest, Settling
    <3>3. failures' # 0 BY <3>1
    <3> QED BY <2>1, <3>1, <3>2, <3>3, AloneUnlessOverlapped DEF PlansInv, RowsTyped
  <2> QED BY <1>2, <2>2, <2>3, <2>4 DEF Next, Succeeds
<1> QED BY <1>1, <1>2

(* subscription-request.service.ts:145: the days ahead are those of the    *)
(* confirmed plans, for any plans, requests and calls that do not overlap  *)
(* or fail while they settle one.                                          *)
THEOREM NoPaidDayIsLost == Spec => []DaysAreKept
<1>1. PlansInv => DaysAreKept
  BY DEF PlansInv, DaysAreKept, DaysAddUp, At
<1> QED BY InitInv, NextInv, PlansInit, PlansNext, <1>1, PTL DEF Spec
=============================================================================
