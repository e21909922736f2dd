---------------------------- MODULE OneTimeCode -----------------------------
(***************************************************************************)
(* Logging in to one phone with a one-time code or the password:           *)
(* OtpService, AuthService and blocking from the panel.  A code is its     *)
(* place in the order of requests; the newest unused one is checked.       *)
(***************************************************************************)
EXTENDS Integers, Sequences, FiniteSets

CONSTANTS Verifiers,                     \* handlers at a time
          MAX_ATTEMPTS, MAX_REQUESTS_PER_WINDOW,
          CODE_TTL, REQUEST_WINDOW,
          MaxCodes, MaxClock             \* bounds
ASSUME OtpAssumption ==
  /\ {MAX_ATTEMPTS, MAX_REQUESTS_PER_WINDOW, CODE_TTL, REQUEST_WINDOW, MaxCodes, MaxClock}
       \subseteq Nat \ {0}
  /\ IsFiniteSet(Verifiers)

VARIABLES
  clock,
  codes,        \* the rows: when each was made, its attempts, whether consumed
  recent,       \* recentRequests of this process: the codes it remembers
  status,       \* of the user
  verify,       \* per handler, where it is, which row it read, what was typed
  misses, logins,  \* history: per code, wrong guesses told so, and tokens issued
  met, restarted,  \* history: two handlers checked one code at once; a restart
  barred           \* history: blocked, no login being past that check, and still so

otpVars == <<clock, codes, recent, status, verify, misses, logins, met, restarted, barred>>
Verifying(c, step) == verify' = [verify EXCEPT ![c] = step]
OtpRejected == [at |-> "idle", code |-> 0, typed |-> 0]
Fresh == {i \in recent : clock - codes[i].at < REQUEST_WINDOW}

(* request(): the code is stored, then sent.                               *)
RequestCode ==
  /\ Len(codes) < MaxCodes /\ Cardinality(Fresh) < MAX_REQUESTS_PER_WINDOW
  /\ recent' = Fresh \cup {Len(codes) + 1}
  /\ codes' = Append(codes, [at |-> clock, attempts |-> 0, consumed |-> FALSE])
  /\ UNCHANGED <<clock, status, verify, misses, logins, met, restarted, barred>>

(* verify(): what it checks of the row it reads.                           *)
OneTooMany(i) == codes[i].attempts > MAX_ATTEMPTS      \* mutant of Exhausted
Exhausted(i) == codes[i].attempts >= MAX_ATTEMPTS
Challenge(i) ==
  /\ ~codes[i].consumed
  /\ \A j \in i + 1 .. Len(codes) : codes[j].consumed
CheckCode(c, i, typed) ==
  /\ verify[c].at = "idle" /\ Challenge(i)
  /\ clock <= codes[i].at + CODE_TTL /\ ~Exhausted(i)
  /\ Verifying(c, [at |-> "checked", code |-> i, typed |-> typed])
  /\ met' = (met \/ \E d \in Verifiers : verify[d].code = i)
  /\ UNCHANGED <<clock, codes, recent, status, misses, logins, restarted, barred>>
Miss(c) ==
  LET i == verify[c].code IN
  /\ verify[c].at = "checked" /\ verify[c].typed # i
  /\ Verifying(c, OtpRejected)
  /\ codes' = [codes EXCEPT ![i].attempts = @ + 1] /\ misses' = [misses EXCEPT ![i] = @ + 1]
  /\ UNCHANGED <<clock, recent, status, logins, met, restarted, barred>>
Consume(c) ==
  LET i == verify[c].code IN
  /\ verify[c].at = "checked" /\ verify[c].typed = i
  /\ Verifying(c, [verify[c] EXCEPT !.at = "consumed"])
  /\ codes' = [codes EXCEPT ![i].consumed = TRUE]
  /\ UNCHANGED <<clock, recent, status, misses, logins, met, restarted, barred>>
(* A blocked account is refused; a pending one, or one whose block has     *)
(* expired, is made active first.                                          *)
Opens(i) == logins' = [logins EXCEPT ![i] = IF i = 0 THEN 0 ELSE @ + 1]
Admitted(c, i) ==
  /\ IF status = "ACTIVE" THEN Verifying(c, OtpRejected) /\ Opens(i)
     ELSE /\ Verifying(c, IF status = "BLOCKED" THEN OtpRejected
                          ELSE [at |-> "activating", code |-> i, typed |-> i])
          /\ UNCHANGED logins
  /\ UNCHANGED <<clock, codes, recent, status, misses, met, restarted, barred>>
Admit(c) == verify[c].at = "consumed" /\ Admitted(c, verify[c].code)
(* The right password, which counts as code 0.                             *)
loginWithPassword(c) == verify[c].at = "idle" /\ Admitted(c, 0)
Activate(c) ==
  /\ verify[c].at = "activating" /\ status' = "ACTIVE"
  /\ Verifying(c, OtpRejected) /\ Opens(verify[c].code)
  /\ UNCHANGED <<clock, codes, recent, misses, met, restarted, barred>>

Blocked ==
  /\ status' = "BLOCKED"
  /\ barred' = (barred \/ \A c \in Verifiers : verify[c].at # "activating")
  /\ UNCHANGED <<clock, codes, recent, verify, misses, logins, met, restarted>>
BlockExpires ==
  /\ status = "BLOCKED" /\ status' = "EXPIRED" /\ barred' = FALSE
  /\ UNCHANGED <<clock, codes, recent, verify, misses, logins, met, restarted>>
Unblocked ==
  /\ status' = "ACTIVE" /\ barred' = FALSE
  /\ UNCHANGED <<clock, codes, recent, verify, misses, logins, met, restarted>>
MinutePasses ==
  /\ clock < MaxClock /\ clock' = clock + 1
  /\ UNCHANGED <<codes, recent, status, verify, misses, logins, met, restarted, barred>>
OtpRestart ==
  /\ ~restarted /\ restarted' = TRUE
  /\ recent' = {} /\ verify' = [c \in Verifiers |-> OtpRejected]
  /\ UNCHANGED <<clock, codes, status, misses, logins, met, barred>>

OtpInit ==
  /\ clock = 0 /\ codes = <<>> /\ recent = {} /\ status = "PENDING"
  /\ verify = [c \in Verifiers |-> OtpRejected]
  /\ misses = [i \in 1..MaxCodes |-> 0] /\ logins = [i \in 0..MaxCodes |-> 0]
  /\ met = FALSE /\ restarted = FALSE /\ barred = FALSE
OtpNext ==
  \/ RequestCode \/ Blocked \/ BlockExpires \/ Unblocked \/ MinutePasses \/ OtpRestart
  \/ \E c \in Verifiers :
       \/ \E i \in DOMAIN codes : \E typed \in 0..Len(codes) : CheckCode(c, i, typed)
       \/ loginWithPassword(c) \/ Miss(c) \/ Consume(c) \/ Admit(c) \/ Activate(c)

-----------------------------------------------------------------------------
(* otp.service.ts:15: guessing stops after MAX_ATTEMPTS and a code opens   *)
(* one session; handlers that check the same code at once add one guess, or*)
(* one session, each and no more, also when an older code becomes the      *)
(* newest unused one again.  And no minute sends more than its share of    *)
(* codes, unless the process restarted in it.  A block stays until it ends *)
(* or is lifted: no login lifts it, except one that was past the check.    *)
Sent(from) == {i \in DOMAIN codes : codes[i].at \in from .. from + REQUEST_WINDOW - 1}
GuessesRunOut ==
  /\ \A i \in 1..MaxCodes :
       LET extra == IF met THEN Cardinality(Verifiers) - 1 ELSE 0 IN
       misses[i] <= MAX_ATTEMPTS + extra /\ logins[i] <= 1 + extra
  /\ barred => status = "BLOCKED"
  /\ ~restarted => \A t \in 0..clock : Cardinality(Sent(t)) <= MAX_REQUESTS_PER_WINDOW
=============================================================================
