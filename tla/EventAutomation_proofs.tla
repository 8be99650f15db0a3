----------------------- MODULE EventAutomation_proofs -----------------------
(* Proofs about EventAutomation, for every value of its constants. *)
EXTENDS EventAutomation, TLAPS

(***************************************************************************)
(* Why a step goes out once: whoever is at work on it holds its record.    *)
(* Only a worker that found no record may send, and only one that nobody   *)
(* else was then at work on is pulled.                                     *)
(***************************************************************************)
Working(w, s) == job[w].s = s /\ job[w].pc \in {"pull", "send", "finish"}

WorkOK(w, s) ==
    /\ job[w].pc = "pull" =>
           /\ log[s] \in {"skipped", "failed"}
           /\ sends[s] = 0
           /\ \A v \in Workers \ {w} : ~At(v, s)
    /\ job[w].pc = "send" => log[s] = "sending" /\ sends[s] = 0
    /\ job[w].pc = "finish" =>
           \/ job[w].result = "sent" /\ log[s] = "sending" /\ sends[s] = 1
           \/ /\ job[w].result \in {"skipped", "failed"}
              /\ log[s] \in {"sending", "skipped"}
              /\ sends[s] = 0

RecordOK(s) ==
    /\ log[s] = "none" => sends[s] = 0 /\ \A w \in Workers : ~Working(w, s)
    /\ log[s] = "sending" => sends[s] <= 1
    /\ log[s] = "sent" => sends[s] = 1
    /\ log[s] \in {"skipped", "failed"} => sends[s] = 0

StepOK(s) ==
    /\ RecordOK(s)
    /\ \A w \in Workers : job[w].s = s => WorkOK(w, s)
    /\ \A w, v \in Workers : Working(w, s) /\ Working(v, s) => w = v

StepsHeld == \A s \in Steps \ raced : StepOK(s)

(***************************************************************************)
(* Why a settled status stays: a request that is about to save one still   *)
(* finds the event as its guard did, for nobody else has changed it.       *)
(***************************************************************************)
ChangeOK(w) ==
    /\ job[w].pc \in {"invite", "publish"} => status = "draft"
    /\ job[w].pc = "cancel" => status \notin {"completed", "cancelled"}
    /\ job[w].pc = "complete" => status = "published"
    /\ job[w].pc = "invite" => mailed <= faults

ChangesApart ==
    ~clashed =>
        /\ \A w \in Workers : ChangeOK(w)
        /\ \A w, v \in Workers : Changing(w) /\ Changing(v) => w = v
        /\ mailed <= 1 + faults
        /\ status = "draft" /\ (\A w \in Workers : job[w].pc # "publish")
               => mailed <= faults

\* A worker at a step names one.
Grounded ==
    \A w \in Workers :
        job[w].pc \in {"pull", "claim", "send", "finish"} => job[w].s \in Steps

IInv == TypeOK /\ Grounded /\ StepsHeld /\ ChangesApart

-----------------------------------------------------------------------------
(* What an action does to the worker that takes it *)

PCs == {"idle", "load", "loop", "pull", "claim", "send", "finish",
        "invite", "publish", "cancel", "complete"}

LEMMA JobFacts ==
    ASSUME TypeOK, NEW w \in Workers
    PROVE  /\ job[w] \in Job
           /\ job[w].pc \in PCs
           /\ job[w].s \in Steps \union {NoStep}
           /\ job[w].todo \in SUBSET Steps /\ job[w].missed \in SUBSET Steps
           /\ job[w].at \in Nat /\ job[w].seen \in EventStatus
           /\ job[w].result \in RunStatus
BY DEF TypeOK, Job, PCs

LEMMA IdleFacts ==
    Idle \in Job /\ Idle.pc = "idle" /\ Idle.s = NoStep /\ Idle.at = 0
BY DEF Idle, Job, EventStatus, RunStatus

LEMMA WorkerFacts == Instances \subseteq Workers /\ Handlers \subseteq Workers
BY DEF Workers

\* Only worker w moves.
OnlyJob(w) ==
    /\ job' \in [Workers -> Job]
    /\ \A v \in Workers \ {w} : job'[v] = job[v]

LEMMA BecomeFacts ==
    ASSUME TypeOK, NEW w \in Workers, NEW new \in Job, Become(w, new)
    PROVE  OnlyJob(w) /\ job'[w] = new
BY DEF TypeOK, Become, OnlyJob

LEMMA GotoFacts ==
    ASSUME TypeOK, NEW w \in Workers, NEW pc \in PCs, Goto(w, pc)
    PROVE  /\ OnlyJob(w) /\ job'[w].pc = pc /\ job'[w].s = job[w].s
           /\ job'[w].at = job[w].at
BY JobFacts DEF TypeOK, Goto, OnlyJob, Job, PCs

LEMMA AcceptFacts ==
    ASSUME TypeOK, NEW h \in Handlers, NEW new \in Job, Accept(h, new)
    PROVE  /\ OnlyJob(h) /\ job'[h] = new
           /\ job[h].pc = "idle" /\ requests' \in Nat
BY BecomeFacts, WorkerFacts DEF Accept, Free, TypeOK

LEMMA RunNowFacts ==
    ASSUME TypeOK, NEW h \in Handlers, NEW s \in Steps, RunNow(h, s)
    PROVE  /\ OnlyJob(h) /\ job[h].pc = "idle" /\ requests' \in Nat
           /\ job'[h].s = s
           /\ job'[h].pc = IF log[s] = "none" THEN "claim" ELSE "pull"
<1> DEFINE new == [Idle EXCEPT !.s = s,
                       !.pc = IF log[s] = "none" THEN "claim" ELSE "pull"]
<1>1. new \in Job
  BY DEF Idle, Job, EventStatus, RunStatus
<1>2. new.s = s /\ new.pc = IF log[s] = "none" THEN "claim" ELSE "pull"
  BY DEF Idle
<1> HIDE DEF new
<1>3. Accept(h, new)
  BY DEF RunNow, new
<1> QED BY <1>1, <1>2, <1>3, AcceptFacts

LEMMA PublishFacts ==
    ASSUME TypeOK, NEW h \in Handlers, Publish(h)
    PROVE  /\ OnlyJob(h) /\ job[h].pc = "idle" /\ requests' \in Nat
           /\ job'[h].s = NoStep /\ job'[h].pc = "invite"
           /\ job'[h].at = now
<1>1. [Idle EXCEPT !.pc = "invite", !.at = now] \in Job
  BY DEF Idle, Job, EventStatus, RunStatus, TypeOK
<1> QED BY <1>1, AcceptFacts DEF Publish, Idle

LEMMA CancelFacts ==
    ASSUME TypeOK, NEW h \in Handlers, Cancel(h)
    PROVE  /\ OnlyJob(h) /\ job[h].pc = "idle" /\ requests' \in Nat
           /\ job'[h].s = NoStep /\ job'[h].pc = "cancel"
<1>1. [Idle EXCEPT !.pc = "cancel"] \in Job
  BY DEF Idle, Job, EventStatus, RunStatus
<1> QED BY <1>1, AcceptFacts DEF Cancel, Idle

LEMMA CompleteFacts ==
    ASSUME TypeOK, NEW h \in Handlers, Complete(h)
    PROVE  /\ OnlyJob(h) /\ job[h].pc = "idle" /\ requests' \in Nat
           /\ job'[h].s = NoStep /\ job'[h].pc = "complete"
           /\ job'[h].at = now
<1>1. [Idle EXCEPT !.pc = "complete", !.at = now] \in Job
  BY DEF Idle, Job, EventStatus, RunStatus, TypeOK
<1> QED BY <1>1, AcceptFacts DEF Complete, Idle

LEMMA StartTickFacts ==
    ASSUME TypeOK, NEW i \in Instances, StartTick(i)
    PROVE  /\ OnlyJob(i) /\ job[i].pc = "idle"
           /\ job'[i].s = NoStep /\ job'[i].pc = "load"
<1>1. [Idle EXCEPT !.pc = "load", !.at = now] \in Job
  BY DEF Idle, Job, EventStatus, RunStatus, TypeOK
<1> QED BY <1>1, BecomeFacts, WorkerFacts DEF StartTick, Idle, Free

LEMMA LoadEventFacts ==
    ASSUME TypeOK, NEW i \in Instances, LoadEvent(i)
    PROVE  OnlyJob(i) /\ job[i].pc = "load" /\ job'[i].pc = "loop"
<1> DEFINE t == job[i].at
           new == [job[i] EXCEPT !.pc = "loop", !.seen = status,
                                 !.todo = Due(t), !.missed = Missed(t)]
<1>1. Due(t) \in SUBSET Steps /\ Missed(t) \in SUBSET Steps
  BY DEF Due, Missed, TypeOK
<1>2. new \in Job /\ new.pc = "loop"
  <2>1. job[i] \in Job /\ status \in EventStatus
    BY JobFacts, WorkerFacts DEF TypeOK
  <2> HIDE DEF t
  <2> QED BY <1>1, <2>1 DEF Job
<1> HIDE DEF new
<1>3. Become(i, new) /\ job[i].pc = "load"
  BY DEF LoadEvent, new
<1> QED BY <1>2, <1>3, BecomeFacts, WorkerFacts

\* A worker claims step s, and is at it with the result it wrote; or it finds
\* a record, and passes the step over.
Claimed(w, s) ==
    \/ /\ log[s] = "none"
       /\ job'[w].s = s
       /\ log' = [log EXCEPT ![s] = job'[w].result]
       /\ \/ job'[w].pc = "send" /\ job'[w].result = "sending"
          \/ job'[w].pc = "finish" /\ job'[w].result = "skipped"
    \/ job'[w].pc \in {"loop", "idle"} /\ UNCHANGED log

LEMMA ClaimNextFacts ==
    ASSUME TypeOK, NEW i \in Instances, ClaimNext(i)
    PROVE  /\ OnlyJob(i) /\ job[i].pc = "loop"
           /\ \E s \in Steps : Claimed(i, s)
<1>1. PICK s \in job[i].todo :
         Claim(i, s,
               IF s \in job[i].missed
               THEN [[job[i] EXCEPT !.todo = @ \ {s}]
                        EXCEPT !.pc = "finish", !.s = s, !.result = "skipped"]
               ELSE [[job[i] EXCEPT !.todo = @ \ {s}]
                        EXCEPT !.pc = "send", !.s = s, !.result = "sending"],
               [job[i] EXCEPT !.todo = @ \ {s}])
  BY DEF ClaimNext
<1> DEFINE rest == [job[i] EXCEPT !.todo = job[i].todo \ {s}]
           skip == [rest EXCEPT !.pc = "finish", !.s = s, !.result = "skipped"]
           send == [rest EXCEPT !.pc = "send", !.s = s, !.result = "sending"]
<1>2. s \in Steps /\ job[i].pc = "loop"
  BY JobFacts, WorkerFacts DEF ClaimNext
<1>3. rest \in Job /\ rest.pc = "loop"
  BY <1>2, JobFacts, WorkerFacts DEF Job
<1>4. skip \in Job /\ skip.pc = "finish" /\ skip.s = s
      /\ skip.result = "skipped"
  BY <1>2, JobFacts, WorkerFacts DEF Job, RunStatus
<1>5. send \in Job /\ send.pc = "send" /\ send.s = s
      /\ send.result = "sending"
  BY <1>2, JobFacts, WorkerFacts DEF Job, RunStatus
<1> DEFINE claimed == IF s \in job[i].missed THEN skip ELSE send
<1>6. Claim(i, s, claimed, rest)
  BY <1>1
<1> HIDE DEF rest, skip, send
<1>7. /\ claimed \in Job /\ claimed.s = s
      /\ \/ claimed.pc = "send" /\ claimed.result = "sending"
         \/ claimed.pc = "finish" /\ claimed.result = "skipped"
  BY <1>4, <1>5
<1> HIDE DEF claimed
<1>8. i \in Workers
  BY WorkerFacts
<1>9. CASE /\ log[s] = "none"
           /\ log' = [log EXCEPT ![s] = claimed.result]
           /\ Become(i, claimed)
  <2>1. OnlyJob(i) /\ job'[i] = claimed
    BY <1>7, <1>8, <1>9, BecomeFacts
  <2>2. Claimed(i, s)
    BY <1>7, <1>9, <2>1 DEF Claimed
  <2> QED BY <1>2, <2>1, <2>2
<1>10. CASE Become(i, rest) /\ UNCHANGED log
  <2>1. OnlyJob(i) /\ job'[i] = rest
    BY <1>3, <1>8, <1>10, BecomeFacts
  <2>2. Claimed(i, s)
    BY <1>3, <1>10, <2>1 DEF Claimed
  <2> QED BY <1>2, <2>1, <2>2
<1> QED BY <1>6, <1>9, <1>10 DEF Claim

LEMMA ClaimManuallyFacts ==
    ASSUME TypeOK, NEW h \in Handlers, ClaimManually(h),
           job[h].s \in Steps
    PROVE  OnlyJob(h) /\ job[h].pc = "claim" /\ Claimed(h, job[h].s)
<1> DEFINE send == [job[h] EXCEPT !.pc = "send", !.result = "sending"]
<1>1. send \in Job /\ send.pc = "send" /\ send.s = job[h].s
      /\ send.result = "sending"
  BY JobFacts, WorkerFacts DEF Job, RunStatus
<1>2. Claim(h, job[h].s, send, Idle) /\ job[h].pc = "claim"
  BY DEF ClaimManually
<1> HIDE DEF send
<1>3. h \in Workers
  BY WorkerFacts
<1>4. CASE /\ log[job[h].s] = "none"
           /\ log' = [log EXCEPT ![job[h].s] = send.result]
           /\ Become(h, send)
  <2>1. OnlyJob(h) /\ job'[h] = send
    BY <1>1, <1>3, <1>4, BecomeFacts
  <2> QED BY <1>1, <1>2, <1>4, <2>1 DEF Claimed
<1>5. CASE Become(h, Idle) /\ UNCHANGED log
  <2>1. OnlyJob(h) /\ job'[h] = Idle
    BY <1>3, <1>5, BecomeFacts, IdleFacts
  <2> QED BY <1>2, <1>5, <2>1, IdleFacts DEF Claimed
<1> QED BY <1>2, <1>4, <1>5 DEF Claim

LEMMA ExecuteFacts ==
    ASSUME TypeOK, NEW w \in Workers, Execute(w)
    PROVE  /\ OnlyJob(w) /\ job[w].pc = "send"
           /\ job'[w].pc = "finish" /\ job'[w].s = job[w].s
           /\ job'[w].result \in {"sent", "failed", "skipped"}
           /\ sends' = IF job'[w].result = "sent"
                       THEN [sends EXCEPT ![job[w].s] = @ + 1] ELSE sends
<1>1. PICK r \in {"sent", "failed", "skipped"} :
         /\ job' = [job EXCEPT ![w].result = r, ![w].pc = "finish"]
         /\ sends' = IF r = "sent"
                     THEN [sends EXCEPT ![job[w].s] = @ + 1] ELSE sends
  BY DEF Execute
<1>2. job'[w] = [job[w] EXCEPT !.result = r, !.pc = "finish"]
      /\ \A v \in Workers \ {w} : job'[v] = job[v]
  BY <1>1, JobFacts DEF TypeOK, Job
<1>3. job'[w] \in Job /\ job'[w].pc = "finish" /\ job'[w].s = job[w].s
      /\ job'[w].result = r
  BY <1>2, JobFacts DEF Job, RunStatus
<1>4. job' \in [Workers -> Job]
  BY <1>1, <1>3 DEF TypeOK, Job, RunStatus
<1> QED BY <1>1, <1>2, <1>3, <1>4 DEF OnlyJob, Execute

LEMMA FinishStepFacts ==
    ASSUME TypeOK, NEW w \in Workers, FinishStep(w)
    PROVE  /\ OnlyJob(w) /\ job[w].pc = "finish" /\ Record(w)
           /\ job'[w].pc \in {"loop", "idle"}
<1>1. Idle \in Job /\ Idle.pc = "idle"
  BY IdleFacts
<1>2. [job[w] EXCEPT !.pc = "loop", !.s = NoStep, !.result = "none"] \in Job
  BY JobFacts DEF Job, RunStatus
<1> DEFINE new == IF w \in Instances
                  THEN [job[w] EXCEPT !.pc = "loop", !.s = NoStep,
                                      !.result = "none"]
                  ELSE Idle
<1>3. new \in Job /\ new.pc \in {"loop", "idle"}
  BY <1>1, <1>2, JobFacts DEF Job
<1>4. job[w].pc = "finish" /\ Record(w) /\ Become(w, new)
  BY DEF FinishStep
<1> HIDE DEF new
<1> QED BY <1>3, <1>4, BecomeFacts

LEMMA EndTickFacts ==
    ASSUME TypeOK, NEW i \in Instances, EndTick(i)
    PROVE  OnlyJob(i) /\ job[i].pc = "loop" /\ job'[i].pc = "idle"
BY BecomeFacts, IdleFacts, WorkerFacts DEF EndTick

LEMMA SaveFacts ==
    ASSUME TypeOK, NEW h \in Handlers, Become(h, Idle)
    PROVE  OnlyJob(h) /\ job'[h].pc = "idle"
BY BecomeFacts, IdleFacts, WorkerFacts

LEMMA DieFacts ==
    ASSUME TypeOK, NEW w \in Workers, Die(w)
    PROVE  OnlyJob(w) /\ job'[w].pc = "idle" /\ faults' = faults + 1
BY BecomeFacts, IdleFacts DEF Die

-----------------------------------------------------------------------------
(* Types *)

LEMMA GroundedFrame ==
    ASSUME Grounded, NEW w \in Workers, OnlyJob(w),
           job'[w].pc \in {"pull", "claim", "send", "finish"}
               => job'[w].s \in Steps
    PROVE  Grounded'
BY DEF Grounded, OnlyJob

LEMMA InitTyped == Init => TypeOK /\ Grounded
<1> SUFFICES ASSUME Init PROVE TypeOK /\ Grounded
  OBVIOUS
<1>1. TypeOK
  BY IdleFacts DEF Init, TypeOK, EventStatus, RunStatus
<1>2. Grounded
  BY IdleFacts DEF Init, Grounded
<1> QED BY <1>1, <1>2

\* What a claim writes is a status.
LEMMA ClaimedTyped ==
    ASSUME TypeOK, NEW w \in Workers, NEW s \in Steps, OnlyJob(w),
           Claimed(w, s)
    PROVE  /\ log' \in [Steps -> RunStatus]
           /\ job'[w].pc \in {"pull", "claim", "send", "finish"}
                  => job'[w].s \in Steps
BY DEF Claimed, TypeOK, RunStatus

LEMMA CronTyped ==
    ASSUME TypeOK, Grounded, NEW i \in Instances, CronStep(i)
    PROVE  TypeOK' /\ Grounded'
<1>0. i \in Workers
  BY WorkerFacts
<1>1. CASE StartTick(i)
  BY <1>0, <1>1, StartTickFacts, GroundedFrame
     DEF StartTick, TypeOK, OnlyJob, event, history
<1>2. CASE LoadEvent(i)
  BY <1>0, <1>2, LoadEventFacts, GroundedFrame
     DEF LoadEvent, TypeOK, OnlyJob, event, history
<1>3. CASE ClaimNext(i)
  <2>1. PICK s \in Steps : Claimed(i, s)
    BY <1>3, ClaimNextFacts
  <2>2. OnlyJob(i) /\ log' \in [Steps -> RunStatus]
        /\ (job'[i].pc \in {"pull", "claim", "send", "finish"}
                => job'[i].s \in Steps)
    BY <1>0, <1>3, <2>1, ClaimNextFacts, ClaimedTyped
  <2> QED BY <1>0, <1>3, <2>2, GroundedFrame
       DEF ClaimNext, TypeOK, OnlyJob, history
<1>4. CASE Execute(i)
  <2>1. job[i].s \in Steps
    BY <1>0, <1>4 DEF Grounded, Execute
  <2>2. sends' \in [Steps -> Nat]
    BY <1>0, <1>4, <2>1, ExecuteFacts DEF TypeOK
  <2> QED BY <1>0, <1>4, <2>1, <2>2, ExecuteFacts, GroundedFrame
       DEF Execute, TypeOK, OnlyJob, event
<1>5. CASE FinishStep(i)
  <2>1. log' \in [Steps -> RunStatus]
    BY <1>0, <1>5, FinishStepFacts, JobFacts DEF Record, TypeOK
  <2> QED BY <1>0, <1>5, <2>1, FinishStepFacts, GroundedFrame
       DEF FinishStep, TypeOK, OnlyJob, history
<1>6. CASE EndTick(i)
  <2>1. OnlyJob(i) /\ job'[i].pc = "idle" /\ job[i].at \in Nat
    BY <1>0, <1>6, EndTickFacts, JobFacts
  <2>2. Grounded'
    BY <1>0, <2>1, GroundedFrame
  <2>3. /\ status' \in EventStatus /\ completed' \in Nat
        /\ clashed' \in BOOLEAN
    <3>1. CASE MayClose(i)
      <4>1. status' = "completed" /\ completed' = job[i].at
        BY <1>6, <3>1 DEF EndTick
      <4>2. clashed' \in BOOLEAN
        BY <1>6, <3>1, Zenon DEF EndTick, TypeOK
      <4> QED BY <2>1, <4>1, <4>2 DEF EventStatus
    <3>2. CASE ~MayClose(i)
      BY <1>6, <3>2 DEF EndTick, TypeOK
    <3> QED BY <3>1, <3>2
  <2> QED BY <1>6, <2>1, <2>2, <2>3 DEF EndTick, TypeOK, OnlyJob
<1> QED BY <1>1, <1>2, <1>3, <1>4, <1>5, <1>6 DEF CronStep

LEMMA RequestTyped ==
    ASSUME TypeOK, Grounded, NEW h \in Handlers,
           Requested(h) \/ RequestStep(h)
    PROVE  TypeOK' /\ Grounded'
<1>0. h \in Workers
  BY WorkerFacts
<1>1. CASE \E s \in Steps : RunNow(h, s)
  <2>1. PICK s \in Steps : RunNow(h, s)
    BY <1>1
  <2>2. raced' \subseteq Steps
    BY <2>1 DEF RunNow, TypeOK
  <2> QED BY <1>0, <2>1, <2>2, RunNowFacts, GroundedFrame
       DEF RunNow, TypeOK, OnlyJob, event
<1>2. CASE Publish(h) \/ Cancel(h) \/ Complete(h)
  <2>1. clashed' \in BOOLEAN
    BY <1>2, Zenon DEF Publish, Cancel, Complete, NoteClash, TypeOK
  <2>2. /\ OnlyJob(h) /\ requests' \in Nat
        /\ job'[h].pc \in {"invite", "cancel", "complete"}
    BY <1>2, PublishFacts, CancelFacts, CompleteFacts
  <2> QED BY <1>0, <1>2, <2>1, <2>2, GroundedFrame
       DEF Publish, Cancel, Complete, TypeOK, OnlyJob, event
<1>3. CASE Pull(h)
  <2>1. OnlyJob(h) /\ job'[h].pc = "claim" /\ job'[h].s = job[h].s
    BY <1>0, <1>3, GotoFacts DEF Pull, PCs
  <2>2. job[h].s \in Steps
    BY <1>0, <1>3 DEF Grounded, Pull
  <2>3. log' \in [Steps -> RunStatus]
    BY <1>3 DEF Pull, TypeOK, RunStatus
  <2> QED BY <1>0, <1>3, <2>1, <2>2, <2>3, GroundedFrame
       DEF Pull, TypeOK, OnlyJob, history
<1>4. CASE ClaimManually(h)
  <2>1. job[h].s \in Steps
    BY <1>0, <1>4 DEF Grounded, ClaimManually
  <2>2. OnlyJob(h) /\ Claimed(h, job[h].s)
    BY <1>4, <2>1, ClaimManuallyFacts
  <2>3. log' \in [Steps -> RunStatus]
        /\ (job'[h].pc \in {"pull", "claim", "send", "finish"}
                => job'[h].s \in Steps)
    BY <1>0, <2>1, <2>2, ClaimedTyped
  <2> QED BY <1>0, <1>4, <2>2, <2>3, GroundedFrame
       DEF ClaimManually, TypeOK, OnlyJob, history
<1>5. CASE Execute(h)
  <2>1. job[h].s \in Steps
    BY <1>0, <1>5 DEF Grounded, Execute
  <2>2. sends' \in [Steps -> Nat]
    BY <1>0, <1>5, <2>1, ExecuteFacts DEF TypeOK
  <2> QED BY <1>0, <1>5, <2>1, <2>2, ExecuteFacts, GroundedFrame
       DEF Execute, TypeOK, OnlyJob, event
<1>6. CASE FinishStep(h)
  <2>1. log' \in [Steps -> RunStatus]
    BY <1>0, <1>6, FinishStepFacts, JobFacts DEF Record, TypeOK
  <2> QED BY <1>0, <1>6, <2>1, FinishStepFacts, GroundedFrame
       DEF FinishStep, TypeOK, OnlyJob, history
<1>7. CASE MailInvitations(h)
  <2>1. OnlyJob(h) /\ job'[h].pc = "publish"
    BY <1>0, <1>7, GotoFacts DEF MailInvitations, PCs
  <2> QED BY <1>0, <1>7, <2>1, GroundedFrame
       DEF MailInvitations, TypeOK, OnlyJob, event
<1>8. CASE SavePublished(h) \/ SaveCancelled(h) \/ SaveCompleted(h)
  <2>1. OnlyJob(h) /\ job'[h].pc = "idle" /\ job[h].at \in Nat
    BY <1>0, <1>8, SaveFacts, JobFacts
       DEF SavePublished, SaveCancelled, SaveCompleted
  <2> QED BY <1>0, <1>8, <2>1, GroundedFrame
       DEF SavePublished, SaveCancelled, SaveCompleted, TypeOK, OnlyJob,
           history, EventStatus
<1> QED BY <1>1, <1>2, <1>3, <1>4, <1>5, <1>6, <1>7, <1>8
     DEF Requested, RequestStep

LEMMA NextTyped ==
    ASSUME TypeOK, Grounded, [Next]_vars
    PROVE  TypeOK' /\ Grounded'
<1>1. CASE \E s \in Steps : UpdateAutomation(s)
  BY <1>1 DEF UpdateAutomation, TypeOK, Grounded, history
<1>2. CASE \E w \in Workers : Die(w)
  <2>1. PICK w \in Workers : Die(w)
    BY <1>2
  <2> QED BY <2>1, DieFacts, GroundedFrame DEF Die, TypeOK, OnlyJob, event
<1>3. CASE Tick
  BY <1>3 DEF Tick, TypeOK, Grounded, event, history
<1>4. CASE UNCHANGED vars
  BY <1>4 DEF vars, TypeOK, Grounded, event, history
<1> QED BY <1>1, <1>2, <1>3, <1>4, CronTyped, RequestTyped DEF Next

\* Every variable keeps its type.
THEOREM TypeCorrect == Spec => []TypeOK
<1>1. Init => TypeOK /\ Grounded
  BY InitTyped
<1>2. TypeOK /\ Grounded /\ [Next]_vars => TypeOK' /\ Grounded'
  BY NextTyped
<1> QED BY <1>1, <1>2, PTL DEF Spec

-----------------------------------------------------------------------------
(* Steps are held by whoever is at work on them *)

\* A step that worker w is not at, and whose record and mails do not change,
\* is held as before.
LEMMA StepFrame ==
    ASSUME NEW u \in Steps, StepOK(u), NEW w \in Workers, OnlyJob(w),
           log'[u] = log[u], sends'[u] = sends[u], ~At(w, u)'
    PROVE  StepOK(u)'
<1>1. \A v \in Workers : At(v, u)' => At(v, u) /\ job'[v] = job[v]
  BY DEF OnlyJob, At
<1>2. \A v \in Workers : Working(v, u)' => Working(v, u) /\ job'[v] = job[v]
  BY DEF OnlyJob, Working, At
<1>3. RecordOK(u)'
  BY <1>2 DEF StepOK, RecordOK
<1>4. ASSUME NEW v \in Workers, job'[v].s = u PROVE WorkOK(v, u)'
  <2>1. CASE v = w
    BY <1>4, <2>1 DEF At, WorkOK
  <2>2. CASE v # w
    BY <1>1, <1>4, <2>2 DEF StepOK, WorkOK, OnlyJob
  <2> QED BY <2>1, <2>2
<1>5. \A v, x \in Workers : Working(v, u)' /\ Working(x, u)' => v = x
  BY <1>2 DEF StepOK
<1> QED BY <1>3, <1>4, <1>5 DEF StepOK

\* The step that a worker leaves, or never was at.
LEMMA AwayFrame ==
    ASSUME StepsHeld, NEW w \in Workers, OnlyJob(w),
           UNCHANGED <<log, sends, raced>>,
           job'[w].pc \notin {"pull", "claim", "send", "finish"}
    PROVE  StepsHeld'
BY StepFrame DEF StepsHeld, At

LEMMA ClaimHolds ==
    ASSUME TypeOK, StepsHeld, NEW w \in Workers, OnlyJob(w),
           NEW s \in Steps, Claimed(w, s), UNCHANGED <<sends, raced>>
    PROVE  StepsHeld'
<1>1. CASE job'[w].pc \in {"loop", "idle"} /\ UNCHANGED log
  BY <1>1, AwayFrame
<1>2. CASE /\ log[s] = "none"
           /\ job'[w].s = s
           /\ log' = [log EXCEPT ![s] = job'[w].result]
           /\ \/ job'[w].pc = "send" /\ job'[w].result = "sending"
              \/ job'[w].pc = "finish" /\ job'[w].result = "skipped"
  <2> SUFFICES ASSUME NEW u \in Steps \ raced PROVE StepOK(u)'
    BY DEF StepsHeld
  <2>0. StepOK(u)
    BY DEF StepsHeld
  <2>1. CASE u # s
    BY <1>2, <2>0, <2>1, StepFrame DEF TypeOK, At
  <2>2. CASE u = s
    <3>1. sends'[u] = 0 /\ \A v \in Workers : ~Working(v, u)
      BY <1>2, <2>0, <2>2 DEF StepOK, RecordOK
    <3>2. log'[u] = job'[w].result
      BY <1>2, <2>2 DEF TypeOK
    <3>3. RecordOK(u)'
      BY <1>2, <3>1, <3>2 DEF RecordOK
    <3>4. ASSUME NEW v \in Workers \ {w} PROVE ~Working(v, u)'
      BY <3>1 DEF Working, OnlyJob
    <3>5. ASSUME NEW v \in Workers, job'[v].s = u PROVE WorkOK(v, u)'
      <4>1. CASE v = w
        BY <1>2, <3>1, <3>2, <4>1 DEF WorkOK
      <4>2. CASE v # w
        BY <3>4, <3>5, <4>2 DEF WorkOK, Working
      <4> QED BY <4>1, <4>2
    <3> QED BY <3>3, <3>4, <3>5 DEF StepOK
  <2> QED BY <2>1, <2>2
<1> QED BY <1>1, <1>2 DEF Claimed

LEMMA ExecuteHolds ==
    ASSUME TypeOK, Grounded, StepsHeld, NEW w \in Workers, Execute(w)
    PROVE  StepsHeld'
<1> DEFINE s == job[w].s
<1>1. /\ OnlyJob(w) /\ job[w].pc = "send" /\ job'[w].pc = "finish"
      /\ job'[w].s = s /\ job'[w].result \in {"sent", "failed", "skipped"}
      /\ sends' = IF job'[w].result = "sent"
                  THEN [sends EXCEPT ![s] = @ + 1] ELSE sends
      /\ UNCHANGED <<log, raced>>
  BY ExecuteFacts DEF Execute, event
<1>2. s \in Steps
  BY <1>1 DEF Grounded
<1> HIDE DEF s
<1> SUFFICES ASSUME NEW u \in Steps \ raced PROVE StepOK(u)'
  BY <1>1 DEF StepsHeld
<1>3. StepOK(u)
  BY DEF StepsHeld
<1>4. CASE u # s
  BY <1>1, <1>3, <1>4, StepFrame DEF TypeOK, At
<1>5. CASE u = s
  <2>1. Working(w, u) /\ At(w, u) /\ log[u] = "sending" /\ sends[u] = 0
    BY <1>1, <1>3, <1>5 DEF StepOK, WorkOK, Working, At, s
  <2>2. sends'[u] = IF job'[w].result = "sent" THEN 1 ELSE 0
    BY <1>1, <1>2, <1>5, <2>1 DEF TypeOK
  <2>3. ASSUME NEW v \in Workers \ {w} PROVE ~Working(v, u)'
    BY <1>1, <1>3, <2>1 DEF StepOK, Working, OnlyJob
  <2>4. RecordOK(u)'
    BY <1>1, <2>1, <2>2 DEF RecordOK
  <2>5. ASSUME NEW v \in Workers, job'[v].s = u PROVE WorkOK(v, u)'
    <3>1. CASE v = w
      BY <1>1, <2>1, <2>2, <3>1 DEF WorkOK
    <3>2. CASE v # w
      BY <2>3, <2>5, <3>2 DEF WorkOK, Working
    <3> QED BY <3>1, <3>2
  <2> QED BY <2>3, <2>4, <2>5 DEF StepOK
<1> QED BY <1>4, <1>5

LEMMA FinishHolds ==
    ASSUME TypeOK, Grounded, StepsHeld, NEW w \in Workers, FinishStep(w)
    PROVE  StepsHeld'
<1> DEFINE s == job[w].s
<1>1. /\ OnlyJob(w) /\ job[w].pc = "finish"
      /\ job'[w].pc \in {"loop", "idle"}
      /\ log' = IF log[s] = "none" THEN log
                ELSE [log EXCEPT ![s] = job[w].result]
      /\ UNCHANGED <<sends, raced>>
  BY FinishStepFacts DEF FinishStep, Record, history
<1>2. s \in Steps
  BY <1>1 DEF Grounded
<1> SUFFICES ASSUME NEW u \in Steps \ raced PROVE StepOK(u)'
  BY <1>1 DEF StepsHeld
<1>3. StepOK(u)
  BY DEF StepsHeld
<1>4. CASE u # s
  BY <1>1, <1>3, <1>4, StepFrame DEF TypeOK, At
<1>5. CASE u = s
  <2>1. Working(w, u) /\ WorkOK(w, u)
    BY <1>1, <1>3, <1>5 DEF StepOK, Working
  <2>2. log[u] # "none"
    BY <1>1, <2>1 DEF WorkOK
  <2>3. log'[u] = job[w].result
    BY <1>1, <1>2, <1>5, <2>2 DEF TypeOK
  <2>4. ASSUME NEW v \in Workers PROVE ~Working(v, u)'
    BY <1>1, <1>3, <2>1 DEF StepOK, Working, OnlyJob
  <2>5. RecordOK(u)'
    BY <1>1, <2>1, <2>3 DEF WorkOK, RecordOK
  <2>6. ASSUME NEW v \in Workers, job'[v].s = u PROVE WorkOK(v, u)'
    BY <2>4, <2>6 DEF WorkOK, Working
  <2> QED BY <2>4, <2>5, <2>6 DEF StepOK
<1> QED BY <1>4, <1>5

LEMMA RunNowHolds ==
    ASSUME TypeOK, StepsHeld, NEW h \in Handlers, NEW s \in Steps,
           RunNow(h, s)
    PROVE  StepsHeld'
<1>1. /\ h \in Workers /\ OnlyJob(h) /\ job[h].pc = "idle" /\ job'[h].s = s
      /\ job'[h].pc = IF log[s] = "none" THEN "claim" ELSE "pull"
      /\ UNCHANGED <<log, sends>> /\ raced \subseteq raced'
  BY RunNowFacts, WorkerFacts DEF RunNow, event
<1> SUFFICES ASSUME NEW u \in Steps \ raced' PROVE StepOK(u)'
  BY DEF StepsHeld
<1>2. StepOK(u)
  BY <1>1 DEF StepsHeld
<1>3. CASE u # s
  BY <1>1, <1>2, <1>3, StepFrame DEF At
<1>4. CASE u = s /\ log[s] = "none"
  <2>1. \A v \in Workers : ~Working(v, u)
    BY <1>2, <1>4 DEF StepOK, RecordOK
  <2>2. ASSUME NEW v \in Workers PROVE ~Working(v, u)'
    BY <1>1, <1>4, <2>1 DEF Working, OnlyJob
  <2>3. ASSUME NEW v \in Workers, job'[v].s = u PROVE WorkOK(v, u)'
    BY <2>2, <2>3 DEF WorkOK, Working
  <2>4. RecordOK(u)'
    BY <1>1, <1>2, <2>2 DEF StepOK, RecordOK
  <2> QED BY <2>2, <2>3, <2>4 DEF StepOK
<1>5. CASE u = s /\ log[s] # "none"
  <2>1. log[u] \in {"skipped", "failed"}
    BY <1>5 DEF RunNow, Sendable, TypeOK, RunStatus
  <2>2. \A v \in Workers \ {h} : ~At(v, u)
    BY <1>1, <1>5 DEF RunNow
  <2>3. \A v \in Workers \ {h} : ~At(v, u)' /\ ~Working(v, u)'
    BY <1>1, <2>2 DEF At, Working, OnlyJob
  <2>4. RecordOK(u)' /\ sends'[u] = 0
    BY <1>1, <1>2, <2>1 DEF StepOK, RecordOK
  <2>5. ASSUME NEW v \in Workers, job'[v].s = u PROVE WorkOK(v, u)'
    <3>1. CASE v = h
      BY <1>1, <1>5, <2>1, <2>3, <2>4, <3>1 DEF WorkOK
    <3>2. CASE v # h
      BY <2>3, <2>5, <3>2 DEF WorkOK, Working
    <3> QED BY <3>1, <3>2
  <2> QED BY <2>3, <2>4, <2>5 DEF StepOK
<1> QED BY <1>3, <1>4, <1>5

LEMMA PullHolds ==
    ASSUME TypeOK, Grounded, StepsHeld, NEW h \in Handlers, Pull(h)
    PROVE  StepsHeld'
<1> DEFINE s == job[h].s
<1>1. /\ h \in Workers /\ OnlyJob(h) /\ job[h].pc = "pull"
      /\ job'[h].s = s /\ job'[h].pc = "claim"
      /\ log' = [log EXCEPT ![s] = "none"] /\ UNCHANGED <<sends, raced>>
  BY GotoFacts, WorkerFacts DEF Pull, PCs, history
<1>2. s \in Steps
  BY <1>1 DEF Grounded
<1> SUFFICES ASSUME NEW u \in Steps \ raced PROVE StepOK(u)'
  BY <1>1 DEF StepsHeld
<1>3. StepOK(u)
  BY DEF StepsHeld
<1>4. CASE u # s
  BY <1>1, <1>3, <1>4, StepFrame DEF TypeOK, At
<1>5. CASE u = s
  <2>1. sends[u] = 0 /\ \A v \in Workers \ {h} : ~At(v, u)
    BY <1>1, <1>3, <1>5 DEF StepOK, WorkOK
  <2>2. ASSUME NEW v \in Workers PROVE ~Working(v, u)'
    BY <1>1, <2>1 DEF Working, At, OnlyJob
  <2>3. RecordOK(u)'
    BY <1>1, <1>2, <1>5, <2>1, <2>2 DEF RecordOK, TypeOK
  <2>4. ASSUME NEW v \in Workers, job'[v].s = u PROVE WorkOK(v, u)'
    BY <2>2, <2>4 DEF WorkOK, Working
  <2> QED BY <2>2, <2>3, <2>4 DEF StepOK
<1> QED BY <1>4, <1>5

LEMMA NextHolds ==
    ASSUME TypeOK, Grounded, StepsHeld, [Next]_vars
    PROVE  StepsHeld'
<1>1. ASSUME NEW i \in Instances, CronStep(i)
      PROVE  StepsHeld'
  <2>0. i \in Workers
    BY WorkerFacts
  <2>1. CASE StartTick(i) \/ LoadEvent(i) \/ EndTick(i)
    BY <2>0, <2>1, StartTickFacts, LoadEventFacts, EndTickFacts, AwayFrame
       DEF StartTick, LoadEvent, EndTick, event, history
  <2>2. CASE ClaimNext(i)
    BY <2>0, <2>2, ClaimNextFacts, ClaimHolds DEF ClaimNext, history
  <2> QED BY <1>1, <2>0, <2>1, <2>2, ExecuteHolds, FinishHolds DEF CronStep
<1>2. ASSUME NEW h \in Handlers, Requested(h) \/ RequestStep(h)
      PROVE  StepsHeld'
  <2>0. h \in Workers
    BY WorkerFacts
  <2>1. CASE Publish(h) \/ Cancel(h) \/ Complete(h)
    BY <2>0, <2>1, PublishFacts, CancelFacts, CompleteFacts, AwayFrame
       DEF Publish, Cancel, Complete, event
  <2>2. CASE ClaimManually(h)
    BY <2>0, <2>2, ClaimManuallyFacts, ClaimHolds
       DEF ClaimManually, Grounded, history
  <2>3. CASE MailInvitations(h)
    <3>1. OnlyJob(h) /\ job'[h].pc = "publish"
      BY <2>0, <2>3, GotoFacts DEF MailInvitations, PCs
    <3> QED BY <2>0, <2>3, <3>1, AwayFrame DEF MailInvitations, event
  <2>4. CASE SavePublished(h) \/ SaveCancelled(h) \/ SaveCompleted(h)
    BY <2>0, <2>4, SaveFacts, AwayFrame
       DEF SavePublished, SaveCancelled, SaveCompleted, history
  <2> QED BY <1>2, <2>0, <2>1, <2>2, <2>3, <2>4, RunNowHolds, PullHolds,
            ExecuteHolds, FinishHolds DEF Requested, RequestStep
<1>3. CASE \E s \in Steps : UpdateAutomation(s)
  BY <1>3 DEF UpdateAutomation, StepsHeld, StepOK, RecordOK, WorkOK, Working,
          At, history
<1>4. CASE \E w \in Workers : Die(w)
  BY <1>4, DieFacts, AwayFrame DEF Die, event
<1>5. CASE Tick \/ UNCHANGED vars
  BY <1>5 DEF Tick, vars, event, history, StepsHeld, StepOK, RecordOK,
          WorkOK, Working, At
<1> QED BY <1>1, <1>2, <1>3, <1>4, <1>5 DEF Next

LEMMA InitHolds == Init => StepsHeld
BY IdleFacts DEF Init, StepsHeld, StepOK, RecordOK, WorkOK, Working

-----------------------------------------------------------------------------
(* Changes of the status *)

\* A worker that changes nothing before or after its step disturbs no change.
LEMMA QuietFrame ==
    ASSUME ChangesApart, NEW w \in Workers, OnlyJob(w),
           ~Changing(w), ~Changing(w)',
           UNCHANGED <<status, mailed, faults, clashed>>
    PROVE  ChangesApart'
<1> SUFFICES ASSUME ~clashed
             PROVE  /\ \A v \in Workers : ChangeOK(v)'
                    /\ \A v, x \in Workers : Changing(v)' /\ Changing(x)'
                           => v = x
                    /\ mailed <= 1 + faults
                    /\ status = "draft"
                           /\ (\A v \in Workers : job'[v].pc # "publish")
                           => mailed <= faults
  BY DEF ChangesApart
<1>1. \A v \in Workers : Changing(v)' => Changing(v) /\ job'[v] = job[v]
  BY DEF OnlyJob, Changing
<1>2. ASSUME NEW v \in Workers PROVE ChangeOK(v)'
  <2>1. CASE Changing(v)'
    BY <1>1, <2>1 DEF ChangesApart, ChangeOK
  <2>2. CASE ~Changing(v)'
    BY <2>2 DEF Changing, ChangeOK
  <2> QED BY <2>1, <2>2
<1>3. (\A v \in Workers : job'[v].pc # "publish")
          => \A v \in Workers : job[v].pc # "publish"
  BY DEF OnlyJob, Changing
<1> QED BY <1>1, <1>2, <1>3 DEF ChangesApart

\* A request that is accepted while no other one changes the status.
LEMMA AcceptApart ==
    ASSUME TypeOK, ChangesApart, NEW h \in Handlers,
           Publish(h) \/ Cancel(h) \/ Complete(h)
    PROVE  ChangesApart'
<1>1. /\ h \in Workers /\ OnlyJob(h) /\ job[h].pc = "idle" /\ NoteClash(h)
      /\ UNCHANGED <<status, mailed, faults>>
  BY PublishFacts, CancelFacts, CompleteFacts, WorkerFacts
     DEF Publish, Cancel, Complete, event
<1> SUFFICES ASSUME ~clashed' PROVE ChangesApart'
  BY DEF ChangesApart
<1>2. ~clashed /\ \A w \in Workers \ {h} : ~Changing(w)
  BY <1>1, Zenon DEF NoteClash
<1>3. \A w \in Workers \ {h} : ~Changing(w)' /\ ChangeOK(w)'
  BY <1>1, <1>2 DEF OnlyJob, Changing, ChangeOK
<1>4. status = "draft" => mailed <= faults
  BY <1>1, <1>2 DEF ChangesApart, Changing
<1>5. ChangeOK(h)' /\ job'[h].pc # "publish"
  BY <1>1, <1>4, PublishFacts, CancelFacts, CompleteFacts
     DEF ChangeOK, Publish, Cancel, Complete, Publishable, Cancellable
<1>6. mailed <= 1 + faults
  BY <1>2 DEF ChangesApart
<1> QED BY <1>1, <1>3, <1>4, <1>5, <1>6 DEF ChangesApart

\* A request under way is the only one.
LEMMA Alone ==
    ASSUME ChangesApart, ~clashed, NEW h \in Workers, OnlyJob(h), Changing(h)
    PROVE  \A w \in Workers \ {h} : ~Changing(w)' /\ ChangeOK(w)'
BY DEF ChangesApart, OnlyJob, Changing, ChangeOK

LEMMA MailApart ==
    ASSUME TypeOK, ChangesApart, NEW h \in Handlers, MailInvitations(h)
    PROVE  ChangesApart'
<1>1. /\ h \in Workers /\ OnlyJob(h) /\ job[h].pc = "invite"
      /\ job'[h].pc = "publish" /\ mailed' = mailed + 1
      /\ UNCHANGED <<status, faults, clashed>>
  BY GotoFacts, WorkerFacts DEF MailInvitations, PCs, event
<1> SUFFICES ASSUME ~clashed PROVE ChangesApart'
  BY <1>1 DEF ChangesApart
<1>2. \A w \in Workers \ {h} : ~Changing(w)' /\ ChangeOK(w)'
  BY <1>1, Alone DEF Changing
<1>3. mailed <= faults /\ status = "draft"
  BY <1>1 DEF ChangesApart, ChangeOK
<1>4. mailed' <= 1 + faults /\ ChangeOK(h)'
  BY <1>1, <1>3 DEF TypeOK, ChangeOK
<1> QED BY <1>1, <1>2, <1>4 DEF ChangesApart

LEMMA SaveApart ==
    ASSUME TypeOK, ChangesApart, NEW h \in Handlers,
           SavePublished(h) \/ SaveCancelled(h) \/ SaveCompleted(h)
    PROVE  ChangesApart'
<1>1. /\ h \in Workers /\ OnlyJob(h) /\ Changing(h) /\ job'[h].pc = "idle"
      /\ UNCHANGED <<mailed, faults, clashed>> /\ status' # "draft"
  BY SaveFacts, WorkerFacts
     DEF SavePublished, SaveCancelled, SaveCompleted, Changing, history
<1> SUFFICES ASSUME ~clashed PROVE ChangesApart'
  BY <1>1 DEF ChangesApart
<1>2. \A w \in Workers \ {h} : ~Changing(w)' /\ ChangeOK(w)'
  BY <1>1, Alone
<1>3. mailed <= 1 + faults /\ ChangeOK(h)' /\ ~Changing(h)'
  BY <1>1 DEF ChangesApart, ChangeOK, Changing
<1> QED BY <1>1, <1>2, <1>3 DEF ChangesApart

LEMMA EndTickApart ==
    ASSUME TypeOK, ChangesApart, NEW i \in Instances, EndTick(i)
    PROVE  ChangesApart'
<1>1. /\ i \in Workers /\ OnlyJob(i) /\ ~Changing(i) /\ ~Changing(i)'
      /\ UNCHANGED <<mailed, faults>>
  BY EndTickFacts, WorkerFacts DEF EndTick, Changing
<1>2. CASE MayClose(i)
  <2>1. /\ status' = "completed"
        /\ clashed' = (clashed \/ \E w \in Workers : Changing(w))
    BY <1>2 DEF EndTick
  <2> SUFFICES ASSUME ~clashed' PROVE ChangesApart'
    BY DEF ChangesApart
  <2>2. ~clashed /\ \A w \in Workers : ~Changing(w)
    BY <2>1, Zenon
  <2>3. \A w \in Workers : ~Changing(w)' /\ ChangeOK(w)'
    BY <1>1, <2>2 DEF OnlyJob, Changing, ChangeOK
  <2>4. mailed' <= 1 + faults'
    BY <1>1, <2>2 DEF ChangesApart
  <2> QED BY <2>1, <2>3, <2>4 DEF ChangesApart
<1>3. CASE ~MayClose(i)
  BY <1>1, <1>3, QuietFrame DEF EndTick
<1> QED BY <1>2, <1>3

LEMMA DieApart ==
    ASSUME TypeOK, ChangesApart, NEW w \in Workers, Die(w)
    PROVE  ChangesApart'
<1>1. /\ OnlyJob(w) /\ job'[w].pc = "idle" /\ faults' = faults + 1
      /\ UNCHANGED <<status, mailed, clashed>>
  BY DieFacts DEF Die, event
<1> SUFFICES ASSUME ~clashed PROVE ChangesApart'
  BY <1>1 DEF ChangesApart
<1>2. mailed <= faults'
  BY <1>1 DEF ChangesApart, TypeOK
<1>3. ASSUME NEW v \in Workers PROVE ChangeOK(v)'
  BY <1>1, <1>2 DEF OnlyJob, ChangesApart, ChangeOK
<1>4. \A v, x \in Workers : Changing(v)' /\ Changing(x)' => v = x
  BY <1>1 DEF OnlyJob, ChangesApart, Changing
<1>5. mailed' <= 1 + faults' /\ mailed' <= faults'
  BY <1>1, <1>2 DEF TypeOK
<1> QED BY <1>3, <1>4, <1>5 DEF ChangesApart

LEMMA NextApart ==
    ASSUME TypeOK, Grounded, ChangesApart, [Next]_vars
    PROVE  ChangesApart'
<1>1. ASSUME NEW i \in Instances, CronStep(i) PROVE ChangesApart'
  <2>0. i \in Workers
    BY WorkerFacts
  <2>1. CASE StartTick(i)
    BY <2>0, <2>1, StartTickFacts, QuietFrame
       DEF StartTick, Changing, event, history
  <2>2. CASE LoadEvent(i)
    BY <2>0, <2>2, LoadEventFacts, QuietFrame
       DEF LoadEvent, Changing, event, history
  <2>3. CASE ClaimNext(i)
    BY <2>0, <2>3, ClaimNextFacts, QuietFrame
       DEF ClaimNext, Claimed, Changing, history
  <2>4. CASE Execute(i)
    BY <2>0, <2>4, ExecuteFacts, QuietFrame DEF Execute, Changing, event
  <2>5. CASE FinishStep(i)
    BY <2>0, <2>5, FinishStepFacts, QuietFrame
       DEF FinishStep, Changing, history
  <2> QED BY <1>1, <2>1, <2>2, <2>3, <2>4, <2>5, EndTickApart DEF CronStep
<1>2. ASSUME NEW h \in Handlers, Requested(h) \/ RequestStep(h)
      PROVE  ChangesApart'
  <2>0. h \in Workers
    BY WorkerFacts
  <2>1. CASE \E s \in Steps : RunNow(h, s)
    BY <2>0, <2>1, RunNowFacts, QuietFrame DEF RunNow, Changing, event
  <2>2. CASE Pull(h)
    <3>1. OnlyJob(h) /\ job'[h].pc = "claim"
      BY <2>0, <2>2, GotoFacts DEF Pull, PCs
    <3> QED BY <2>0, <2>2, <3>1, QuietFrame DEF Pull, Changing, history
  <2>3. CASE ClaimManually(h)
    BY <2>0, <2>3, ClaimManuallyFacts, QuietFrame
       DEF ClaimManually, Grounded, Claimed, Changing, history
  <2>4. CASE Execute(h)
    BY <2>0, <2>4, ExecuteFacts, QuietFrame DEF Execute, Changing, event
  <2>5. CASE FinishStep(h)
    BY <2>0, <2>5, FinishStepFacts, QuietFrame
       DEF FinishStep, Changing, history
  <2> QED BY <1>2, <2>1, <2>2, <2>3, <2>4, <2>5, AcceptApart, MailApart,
            SaveApart DEF Requested, RequestStep
<1>3. CASE \E s \in Steps : UpdateAutomation(s)
  BY <1>3 DEF UpdateAutomation, ChangesApart, ChangeOK, Changing, history
<1>4. CASE Tick \/ UNCHANGED vars
  BY <1>4 DEF Tick, vars, event, history, ChangesApart, ChangeOK, Changing
<1> QED BY <1>1, <1>2, <1>3, <1>4, DieApart DEF Next

LEMMA InitApart == Init => ChangesApart
BY IdleFacts DEF Init, ChangesApart, ChangeOK, Changing

\* With no change of the status overlapping another, a step that changes it
\* finds it neither completed nor cancelled.
LEMMA StatusStep ==
    ASSUME TypeOK, ChangesApart, [Next]_vars,
           status \in {"completed", "cancelled"}, ~clashed'
    PROVE  UNCHANGED status
<1>1. ASSUME NEW i \in Instances, CronStep(i) PROVE UNCHANGED status
  BY <1>1 DEF CronStep, StartTick, LoadEvent, ClaimNext, Execute, FinishStep,
          EndTick, MayClose, event
<1>2. ASSUME NEW h \in Handlers, Requested(h) PROVE UNCHANGED status
  BY <1>2 DEF Requested, RunNow, Publish, Cancel, Complete, event
<1>3. ASSUME NEW h \in Handlers, RequestStep(h) PROVE UNCHANGED status
  <2>1. CASE SavePublished(h) \/ SaveCancelled(h) \/ SaveCompleted(h)
    <3>1. ~clashed
      BY <2>1 DEF SavePublished, SaveCancelled, SaveCompleted, history
    <3>2. ChangeOK(h)
      BY <3>1, WorkerFacts DEF ChangesApart
    <3> QED BY <2>1, <3>2
         DEF ChangeOK, SavePublished, SaveCancelled, SaveCompleted
  <2> QED BY <1>3, <2>1 DEF RequestStep, Pull, ClaimManually, Execute,
            FinishStep, MailInvitations, event
<1> QED BY <1>1, <1>2, <1>3
     DEF Next, UpdateAutomation, Die, Tick, vars, event

-----------------------------------------------------------------------------
(* The properties *)

LEMMA Invariance == Spec => []IInv
<1>1. Init => IInv
  BY InitTyped, InitHolds, InitApart DEF IInv
<1>2. IInv /\ [Next]_vars => IInv'
  BY NextTyped, NextHolds, NextApart DEF IInv
<1> QED BY <1>1, <1>2, PTL DEF Spec

LEMMA HeldOnce == TypeOK /\ StepsHeld => AtMostOnce /\ LogHonest
<1> SUFFICES ASSUME TypeOK, StepsHeld, NEW s \in Steps \ raced
             PROVE  /\ sends[s] <= 1
                    /\ log[s] = "sent" => sends[s] = 1
                    /\ log[s] \in {"skipped", "failed"} => sends[s] = 0
  BY DEF AtMostOnce, LogHonest
<1>1. RecordOK(s)
  BY DEF StepsHeld, StepOK
<1>2. log[s] \in RunStatus
  BY DEF TypeOK
<1> QED BY <1>1, <1>2 DEF RecordOK, RunStatus

\* However many instances and requests there are, and whoever dies, a step goes
\* out once, unless its record was pulled under a worker.
THEOREM StepsGoOutOnce == Spec => []AtMostOnce
<1>1. IInv => AtMostOnce
  BY HeldOnce DEF IInv
<1> QED BY <1>1, Invariance, PTL

\* The log says sent of what went out, and skipped or failed of what did not.
THEOREM LogTellsTheTruth == Spec => []LogHonest
<1>1. IInv => LogHonest
  BY HeldOnce DEF IInv
<1> QED BY <1>1, Invariance, PTL

\* The invitations go out again only for a publish that died after them.
THEOREM InvitationsGoOutOnce == Spec => []InvitedOnce
<1>1. IInv => InvitedOnce
  BY DEF IInv, ChangesApart, InvitedOnce
<1> QED BY <1>1, Invariance, PTL

\* An event that is over stays over.
THEOREM OverIsOver == Spec => StatusStands
<1>1. IInv /\ [Next]_vars
          => [(status \in {"completed", "cancelled"} /\ ~clashed')
                 => UNCHANGED status]_vars
  BY StatusStep DEF IInv
<1> QED BY <1>1, Invariance, PTL DEF Spec, StatusStands
=============================================================================
