-------------------------------- MODULE Mail --------------------------------
(***************************************************************************)
(* E-mail: the templates, the retry decorator and the circuit breaker that *)
(* lives in Redis.  SMTP may refuse for a while, refuse for good, or time  *)
(* out with the mail already accepted; Redis may be away at any step.      *)
(***************************************************************************)
EXTENDS Naturals, FiniteSets, Sequences

CONSTANTS
  Mail,              \* mails to send
  AskedKind,         \* the kinds of mail asked for
  MaxAttempts,       \* attempts of the retry decorator (3)
  FailureThreshold,  \* failures that open the breaker (5)
  CounterLife,       \* how long the failure counter lives (1 minute)
  ResetTimeout,      \* how long the breaker stays open (30 minutes)
  MaxClock           \* bound: ticks

(* One kind for each way to send; the three of the newsletter are alike *)
Kinds == {"verificationOtp", "verificationLink", "passwordResetOtp", "passwordResetSuccess",
          "contactConfirmation", "contactNotification", "newsletter", "bookingConfirmation",
          "workspaceCancelled", "autoCompleted"}

MailAssumption ==
  /\ AskedKind \subseteq Kinds
  /\ {MaxAttempts, FailureThreshold, CounterLife, ResetTimeout, MaxClock} \subseteq Nat \ {0}

VARIABLES
  mail,      \* per mail: its kind, where the send stands, the error of its attempt
  failures,  \* smtp:circuit-breaker:failures, with the end of its life
  breaker,   \* end of smtp:circuit-breaker, 0 when the key is absent
  failedAt,  \* history: when the failures were recorded
  clock

vars == <<mail, failures, breaker, failedAt, clock>>

Fresh == [kind |-> "none", at |-> "new", attempt |-> 0, error |-> "none"]

Init ==
  /\ mail = [m \in Mail |-> Fresh]
  /\ failures = [count |-> 0, until |-> 0]
  /\ breaker = 0
  /\ failedAt = <<>>
  /\ clock = 0

-----------------------------------------------------------------------------
(* Each kind of mail names a template and gives it a context *)
Template(kind) ==
  CASE kind = "verificationOtp"      -> "otp-verification"
    [] kind = "passwordResetOtp"     -> "password-reset"
    [] kind = "bookingConfirmation"  -> "booking-confirmation"
    [] OTHER                         -> "welcome"

Context(kind) ==
  CASE kind \in {"verificationOtp", "passwordResetOtp"}          -> {"otp"}
    [] kind = "verificationLink"                                 -> {"link"}
    [] kind \in {"contactConfirmation", "contactNotification"}   -> {"name", "message"}
    [] kind = "bookingConfirmation"                              -> {"workspaceName", "date", "startTime", "endTime"}
    [] OTHER                                                     -> {"message"}

(* The fields a template shows outside an if block.  Handlebars runs in    *)
(* strict mode: one that is missing makes the rendering throw.             *)
Needs(template) ==
  CASE template = "booking-confirmation" -> {"workspaceName", "date", "startTime", "endTime"}
    [] template = "welcome"              -> {"message"}
    [] OTHER                             -> {"otp"}

Renders(kind) == Needs(Template(kind)) \subseteq Context(kind)

-----------------------------------------------------------------------------
IsOpen == breaker > clock

(* INCR of a key that is gone starts at 1; EXPIRE gives it another life *)
RecordedFailuresForever == failures.count + 1
RecordedFailures == IF failures.until > clock THEN failures.count + 1 ELSE 1

RecordFailure ==
  /\ failures' = [count |-> RecordedFailures, until |-> clock + CounterLife]
  /\ breaker' = IF RecordedFailures >= FailureThreshold THEN clock + ResetTimeout ELSE breaker
  /\ failedAt' = Append(failedAt, clock)

(* What reaches the retry decorator of an error of a send: an exception of *)
(* its own, with neither responseCode nor code.                            *)
Wrapped(error) == "internal"

IsRetryableError(error) == error \in {"transient", "timeout"}

(* sendTemplate(): the first attempt *)
Send(m, kind) ==
  /\ mail[m] = Fresh
  /\ mail' = [mail EXCEPT ![m] = [@ EXCEPT !.kind = kind, !.at = "check", !.attempt = 1]]
  /\ UNCHANGED <<failures, breaker, failedAt, clock>>

(* An open breaker is an error like any other; without Redis it cannot be read *)
CheckBreaker(m, redisUp) ==
  /\ mail[m].at = "check"
  /\ mail' = [mail EXCEPT ![m] =
       IF redisUp /\ ~IsOpen THEN [@ EXCEPT !.at = "smtp"]
       ELSE [@ EXCEPT !.at = "failing", !.error = "other"]]
  /\ UNCHANGED <<failures, breaker, failedAt, clock>>

(* sendMail(): rendered and handed to SMTP, with one of its answers *)
SendMail(m, answer) ==
  /\ mail[m].at = "smtp"
  /\ mail' = [mail EXCEPT ![m] =
       IF ~Renders(mail[m].kind) THEN [@ EXCEPT !.at = "failing", !.error = "other"]
       ELSE IF answer = "ok" THEN [@ EXCEPT !.at = "recording"]
       ELSE [@ EXCEPT !.at = "failing", !.error = answer]]
  /\ UNCHANGED <<failures, breaker, failedAt, clock>>

(* A success removes the key of the breaker, not the counter *)
RecordSuccess(m, redisUp) ==
  /\ mail[m].at = "recording"
  /\ mail' = [mail EXCEPT ![m] =
       IF redisUp THEN [@ EXCEPT !.at = "sent"] ELSE [@ EXCEPT !.at = "failing", !.error = "redis"]]
  /\ breaker' = IF redisUp THEN 0 ELSE breaker
  /\ UNCHANGED <<failures, failedAt, clock>>

(* The error is counted, wrapped and thrown; the decorator tries again or  *)
(* gives up.  Without Redis the error of the counting is what is thrown.   *)
HandleError(m, redisUp) ==
  /\ mail[m].at = "failing"
  /\ LET thrown == IF redisUp THEN Wrapped(mail[m].error) ELSE "redis"
         again == IsRetryableError(thrown) /\ mail[m].attempt < MaxAttempts
     IN mail' = [mail EXCEPT ![m] =
          IF again THEN [@ EXCEPT !.at = "check", !.attempt = mail[m].attempt + 1] ELSE [@ EXCEPT !.at = "failed"]]
  /\ IF redisUp THEN RecordFailure ELSE UNCHANGED <<failures, breaker, failedAt>>
  /\ UNCHANGED clock

Tick ==
  /\ clock < MaxClock
  /\ clock' = clock + 1
  /\ UNCHANGED <<mail, failures, breaker, failedAt>>

Next ==
  \/ \E m \in Mail :
       \/ \E kind \in AskedKind : Send(m, kind)
       \/ \E redisUp \in BOOLEAN : CheckBreaker(m, redisUp) \/ RecordSuccess(m, redisUp) \/ HandleError(m, redisUp)
       \/ \E answer \in {"ok", "transient", "timeout", "other"} : SendMail(m, answer)
  \/ Tick

Spec == Init /\ [][Next]_vars

-----------------------------------------------------------------------------
(* Type correctness of the mails and of what Redis keeps *)
TypeOK ==
  /\ \A m \in Mail : /\ mail[m].kind \in Kinds \union {"none"}
                     /\ mail[m].attempt \in 0..MaxAttempts
  /\ failures.count \in Nat
  /\ breaker \in 0..(MaxClock + ResetTimeout)
  /\ clock \in 0..MaxClock

(* smtp-circuit-breaker.ts:27 "Reset counter after 1 minute of no          *)
(* failures": the breaker is open because of FailureThreshold failures in  *)
(* a row, each recorded while the counter of the one before it lived, and  *)
(* it stays open for ResetTimeout after the last of them; failures that    *)
(* came singly never open it, whichever mails they are of and whatever     *)
(* succeeded between.                                                      *)
Burst(last) ==
  /\ last \in FailureThreshold..Len(failedAt)
  /\ \A i \in (last - FailureThreshold + 1)..(last - 1) : failedAt[i + 1] < failedAt[i] + CounterLife

BreakerEarned ==
  IsOpen => \E last \in DOMAIN failedAt : Burst(last) /\ breaker = failedAt[last] + ResetTimeout

(* What the decorator says of transient errors: a mail that met one is     *)
(* given up only after all attempts.                                       *)
TransientRetried ==
  \A m \in Mail : mail[m].at = "failed" /\ mail[m].error = "transient" => mail[m].attempt = MaxAttempts

(* Every kind of mail can be rendered by the template it names *)
EveryKindRenders == \A m \in Mail : mail[m].kind = "none" \/ Renders(mail[m].kind)
=============================================================================
