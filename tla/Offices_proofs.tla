---------------------------- MODULE Offices_proofs ----------------------------
(* Proofs about Campaigns and Resolutions, and about the four offices side *)
(* by side, for every value of their constants.                            *)
EXTENDS Offices, Payroll_proofs, Leave_proofs, FiniteSetTheorems, TLAPS

(***************************************************************************)
(* What makes the properties inductive: who is at a campaign, and what its *)
(* status says of the copies that are out.                                 *)
(***************************************************************************)
At(w, c, steps) == sending[w].c = c /\ sending[w].at \in steps
Unmailed(c) == \A p \in People : mailings[c][p] = 0

WorkerOK(w) ==
    /\ sending[w].at \in {"idle", "next"} <=> sending[w].c = NoNewsletter
    /\ sending[w].at # "mail" => sending[w].delivered = {}

\* A campaign that was never created is nobody's business.
UnbornOK(c) ==
    campaigns[c].status = "absent" =>
        Unmailed(c) /\ \A w \in Senders : sending[w].c # c

\* One worker at a time: its step and the status go together.
UntangledOK(c) ==
    /\ \A v, w \in Senders : sending[v].c = c /\ sending[w].c = c => v = w
    /\ campaigns[c].status \in {"Draft", "Scheduled"} => Unmailed(c)
    /\ \A w \in Senders :
           /\ At(w, c, {"schedule", "unschedule", "edit"}) =>
                  campaigns[c].status \in {"Draft", "Scheduled", "deleted"}
           /\ At(w, c, {"start"}) /\ sending[w].seen = "Sending" =>
                  campaigns[c].status \in {"Sending", "deleted"}
           /\ At(w, c, {"suppress", "mail"}) =>
                  campaigns[c].status \in {"Sending", "deleted"}
           /\ sending[w].c = c => sending[w].version = campaigns[c].version

\* And no fault: what the worker notes is what has gone out.
ComposedOK(c) ==
    /\ campaigns[c].status = "Sending" =>
           \E w \in Senders : At(w, c, {"suppress", "mail"})
    /\ campaigns[c].status = "Sent" =>
           campaigns[c].delivered = {p \in People : mailings[c][p] > 0}
    /\ \A p \in People : mailings[c][p] <= 1
    /\ \A w \in Senders :
           /\ At(w, c, {"schedule", "unschedule", "edit", "start",
                        "suppress"}) => Unmailed(c)
           /\ At(w, c, {"mail"}) =>
                  /\ \A p \in People : mailings[c][p] =
                         IF p \in sending[w].delivered THEN 1 ELSE 0
                  /\ sending[w].left \intersect sending[w].delivered = {}

CampaignOK(c) ==
    /\ UnbornOK(c)
    /\ c \notin entangled => UntangledOK(c)
    /\ c \notin entangled \union interrupted => ComposedOK(c)

CampaignIInv ==
    /\ CampaignTypeOK
    /\ \A w \in Senders : WorkerOK(w)
    /\ \A c \in Newsletters : CampaignOK(c)

-----------------------------------------------------------------------------
(* Frames *)

LEMMA CampaignTypeFacts ==
    ASSUME CampaignTypeOK
    PROVE  /\ requests \in Nat /\ faults \in Nat
           /\ campaigns \in [Newsletters -> Campaign]
           /\ sending \in [Senders -> SendingJob]
           /\ mailings \in [Newsletters -> [People -> Nat]]
           /\ entangled \subseteq Newsletters
           /\ interrupted \subseteq Newsletters
           /\ scheduledFor \subseteq Newsletters
           /\ unsubscribed \subseteq People
BY DEF CampaignTypeOK

LEMMA CampaignCountersTyped ==
    ASSUME CampaignTypeOK, Request \/ Step \/ Fault
    PROVE  {requests, faults}' \subseteq Nat
BY CampaignTypeFacts DEF Request, Step, Fault

LEMMA RestFacts ==
    /\ AtRest \in SendingJob
    /\ AtRest.at = "idle" /\ AtRest.c = NoNewsletter /\ AtRest.delivered = {}
    /\ AtRest.todo = {}
BY DEF AtRest, SendingJob, CampaignStatus

\* Worker w moves on to job s, and nobody else does.
CampaignMoves(w, s) ==
    /\ s \in SendingJob
    /\ sending' = [sending EXCEPT ![w] = s]

LEMMA CampaignMovesFacts ==
    ASSUME CampaignTypeOK, NEW w \in Senders, NEW s, CampaignMoves(w, s)
    PROVE  /\ sending' \in [Senders -> SendingJob]
           /\ sending'[w] = s
           /\ \A v \in Senders \ {w} : sending'[v] = sending[v]
BY DEF CampaignMoves, CampaignTypeOK

\* Nothing of campaign c has changed, nor who is at it.
Aside(c) ==
    /\ campaigns'[c] = campaigns[c] /\ mailings'[c] = mailings[c]
    /\ (c \in entangled => c \in entangled')
    /\ (c \in interrupted => c \in interrupted')
    /\ \A w \in Senders :
           /\ sending'[w].c = c <=> sending[w].c = c
           /\ sending[w].c = c => sending'[w] = sending[w]

LEMMA AsideOK ==
    ASSUME NEW c \in Newsletters, CampaignOK(c), Aside(c)
    PROVE  CampaignOK(c)'
<1>1. \A steps : \A w \in Senders : At(w, c, steps)' <=> At(w, c, steps)
  BY DEF Aside, At
<1>2. Unmailed(c)' <=> Unmailed(c)
  BY DEF Aside, Unmailed
<1>3. UnbornOK(c)'
  BY <1>2 DEF Aside, UnbornOK, CampaignOK
<1>4. UntangledOK(c) => UntangledOK(c)'
  BY <1>1, <1>2 DEF Aside, UntangledOK, At
<1>5. ComposedOK(c) => ComposedOK(c)'
  BY <1>1, <1>2 DEF Aside, ComposedOK, At
<1> QED BY <1>3, <1>4, <1>5 DEF Aside, CampaignOK

\* A step of worker w that touches no campaign but c.
LEMMA OneMoves ==
    ASSUME CampaignIInv, NEW w \in Senders, NEW s, CampaignMoves(w, s),
           NEW c \in Newsletters,
           sending[w].c \in {c, NoNewsletter}, s.c \in {c, NoNewsletter},
           s.at \in {"idle", "next"} <=> s.c = NoNewsletter,
           s.at # "mail" => s.delivered = {},
           \A d \in Newsletters \ {c} :
               /\ campaigns'[d] = campaigns[d] /\ mailings'[d] = mailings[d]
               /\ (d \in entangled => d \in entangled')
               /\ (d \in interrupted => d \in interrupted'),
           CampaignOK(c)'
    PROVE  /\ \A v \in Senders : WorkerOK(v)'
           /\ \A d \in Newsletters : CampaignOK(d)'
<1>1. \A v \in Senders : WorkerOK(v)'
  BY CampaignMovesFacts DEF CampaignIInv, WorkerOK
<1>2. ASSUME NEW d \in Newsletters \ {c} PROVE CampaignOK(d)'
  <2>1. Aside(d)
    BY CampaignMovesFacts, CampaignsAssumption DEF CampaignIInv, Aside
  <2> QED BY <2>1, AsideOK DEF CampaignIInv
<1> QED BY <1>1, <1>2

\* A step of nobody that touches no campaign but c.
LEMMA NobodyMoves ==
    ASSUME CampaignIInv, UNCHANGED <<sending, entangled, interrupted,
                                     mailings>>,
           NEW c \in Newsletters,
           \A d \in Newsletters \ {c} : campaigns'[d] = campaigns[d],
           CampaignOK(c)'
    PROVE  /\ \A v \in Senders : WorkerOK(v)'
           /\ \A d \in Newsletters : CampaignOK(d)'
<1>1. \A v \in Senders : WorkerOK(v)'
  BY DEF CampaignIInv, WorkerOK
<1>2. ASSUME NEW d \in Newsletters \ {c} PROVE CampaignOK(d)'
  <2>1. Aside(d)
    BY DEF CampaignIInv, Aside
  <2> QED BY <2>1, AsideOK DEF CampaignIInv
<1> QED BY <1>1, <1>2

-----------------------------------------------------------------------------
(* Reading a campaign, and being done with it *)

LEMMA SenderFacts ==
    ASSUME CampaignIInv, NEW w \in Senders
    PROVE  /\ sending[w] \in SendingJob
           /\ sending[w].c \in Newsletters \union {NoNewsletter}
           /\ sending[w].todo \subseteq Newsletters
           /\ sending[w].recipients \subseteq People
           /\ sending[w].delivered \subseteq People
           /\ sending[w].left \subseteq People
           /\ sending[w].version \in Nat
           /\ sending[w].seen \in CampaignStatus
           /\ WorkerOK(w)
BY CampaignTypeFacts DEF CampaignIInv, SendingJob

LEMMA CampaignFacts ==
    ASSUME CampaignIInv, NEW c \in Newsletters
    PROVE  /\ campaigns[c] \in Campaign
           /\ campaigns[c].status \in CampaignStatus
           /\ campaigns[c].recipients \subseteq People
           /\ campaigns[c].version \in Nat
           /\ mailings[c] \in [People -> Nat]
           /\ CampaignOK(c)
BY CampaignTypeFacts DEF CampaignIInv, Campaign

LEMMA FinishedFacts ==
    ASSUME CampaignIInv, NEW w \in Senders, Finished(w)
    PROVE  \E s : /\ CampaignMoves(w, s) /\ s.c = NoNewsletter
                  /\ s.at \in {"idle", "next"} /\ s.delivered = {}
<1> DEFINE s == IF w \in Ticks
                THEN [AtRest EXCEPT !.at = "next", !.todo = sending[w].todo]
                ELSE AtRest
<1>1. s \in SendingJob /\ s.c = NoNewsletter /\ s.at \in {"idle", "next"}
      /\ s.delivered = {}
  BY SenderFacts DEF AtRest, SendingJob, CampaignStatus
<1>2. CampaignMoves(w, s)
  BY <1>1 DEF Finished, CampaignMoves
<1> QED BY <1>1, <1>2

Reading == {"schedule", "unschedule", "edit", "start"}

LEMMA ReadByFacts ==
    ASSUME CampaignIInv, NEW w \in Senders, NEW c \in Newsletters,
           NEW at \in Reading,
           sending[w].at \in {"idle", "next"}, ReadBy(w, c, at)
    PROVE  \E s : /\ CampaignMoves(w, s) /\ s.c = c /\ s.at = at
                  /\ s.seen = campaigns[c].status /\ s.delivered = {}
                  /\ s.version = campaigns[c].version
<1> DEFINE s == [sending[w] EXCEPT !.at = at, !.c = c,
                    !.seen = campaigns[c].status,
                    !.version = campaigns[c].version,
                    !.recipients = campaigns[c].recipients,
                    !.todo = sending[w].todo \ {c}]
<1>1. sending' = [sending EXCEPT ![w] = s]
  BY SenderFacts, CampaignTypeFacts DEF ReadBy, CampaignIInv, SendingJob
<1>2. s \in SendingJob
  BY SenderFacts, CampaignFacts DEF SendingJob, Reading
<1>3. s.c = c /\ s.at = at /\ s.seen = campaigns[c].status
      /\ s.delivered = {} /\ s.version = campaigns[c].version
  BY SenderFacts DEF SendingJob, WorkerOK
<1> QED BY <1>1, <1>2, <1>3 DEF CampaignMoves

\* A campaign that is open for what worker w means to do, now read by it.
LEMMA ReadOK ==
    ASSUME CampaignIInv, NEW w \in Senders, NEW c \in Newsletters,
           NEW at \in Reading,
           sending[w].at \in {"idle", "next"},
           ReadBy(w, c, at), NoteEntangled(w, c),
           UNCHANGED <<campaigns, mailings, interrupted>>,
           ~Gone(c), campaigns[c].status # "Sent",
           at # "start" => campaigns[c].status \in {"Draft", "Scheduled"}
    PROVE  CampaignOK(c)'
<1>1. PICK s : /\ CampaignMoves(w, s) /\ s.c = c /\ s.at = at
               /\ s.seen = campaigns[c].status /\ s.delivered = {}
               /\ s.version = campaigns[c].version
  BY ReadByFacts
<1>2. sending'[w] = s /\ \A v \in Senders \ {w} : sending'[v] = sending[v]
  BY <1>1, CampaignMovesFacts DEF CampaignIInv
<1>3. sending[w].c # c
  BY SenderFacts, CampaignsAssumption DEF WorkerOK
<1>4. c \notin entangled' =>
          c \notin entangled /\ \A v \in Senders \ {w} : sending[v].c # c
  BY DEF NoteEntangled
<1>5. Unmailed(c)' <=> Unmailed(c)
  BY DEF Unmailed
<1>6. UnbornOK(c)'
  BY DEF UnbornOK, Gone
<1>7. ASSUME c \notin entangled' PROVE UntangledOK(c)'
  BY <1>1, <1>2, <1>4, <1>5, <1>7, CampaignFacts
     DEF UntangledOK, CampaignOK, At, Gone, CampaignStatus, Reading
<1>8. ASSUME c \notin entangled' \union interrupted' PROVE ComposedOK(c)'
  <2>1. UntangledOK(c) /\ ComposedOK(c)
    BY <1>4, <1>8, CampaignFacts DEF CampaignOK
  <2>2. campaigns[c].status # "Sending"
    BY <1>3, <1>4, <1>8, <2>1 DEF ComposedOK, At
  <2>3. campaigns[c].status \in {"Draft", "Scheduled"} /\ Unmailed(c)
    BY <2>1, <2>2, CampaignFacts DEF UntangledOK, Gone, CampaignStatus
  <2> QED BY <1>1, <1>2, <1>4, <1>5, <1>8, <2>1, <2>3
          DEF ComposedOK, At, Reading
<1> QED BY <1>6, <1>7, <1>8 DEF CampaignOK

LEMMA EntangledTyped ==
    ASSUME CampaignIInv, NEW w \in Senders, NEW c \in Newsletters,
           NoteEntangled(w, c)
    PROVE  entangled' \subseteq Newsletters /\ entangled \subseteq entangled'
           /\ entangled' \subseteq entangled \union {c}
BY CampaignTypeFacts DEF CampaignIInv, NoteEntangled

LEMMA ReadSafe ==
    ASSUME CampaignIInv, NEW w \in Senders, NEW c \in Newsletters,
           NEW at \in Reading,
           sending[w].at \in {"idle", "next"},
           ReadBy(w, c, at), NoteEntangled(w, c), Request \/ Step,
           UNCHANGED <<campaigns, scheduledFor, unsubscribed, mailings,
                       interrupted>>,
           ~Gone(c), campaigns[c].status # "Sent",
           at # "start" => campaigns[c].status \in {"Draft", "Scheduled"}
    PROVE  CampaignIInv'
<1>1. PICK s : /\ CampaignMoves(w, s) /\ s.c = c /\ s.at = at
               /\ s.seen = campaigns[c].status /\ s.delivered = {}
  BY ReadByFacts
<1>2. CampaignTypeOK'
  BY <1>1, CampaignMovesFacts, CampaignCountersTyped, EntangledTyped,
     CampaignTypeFacts
     DEF CampaignIInv, CampaignTypeOK
<1>3. CampaignOK(c)'
  BY ReadOK
<1>4. sending[w].c = NoNewsletter /\ c # NoNewsletter
  BY SenderFacts, CampaignsAssumption DEF WorkerOK
<1>5. /\ \A v \in Senders : WorkerOK(v)'
      /\ \A d \in Newsletters : CampaignOK(d)'
  BY <1>1, <1>3, <1>4, EntangledTyped, OneMoves DEF Reading
<1> QED BY <1>2, <1>5 DEF CampaignIInv

LEMMA OperateSafe ==
    ASSUME CampaignIInv, NEW h \in Handlers, NEW c \in Newsletters
    PROVE  Schedule(h, c) \/ Unschedule(h, c) \/ Edit(h, c) \/ SendNow(h, c)
               => CampaignIInv'
<1>1. h \in Senders
  BY DEF Senders
<1>2. ASSUME NEW at \in Reading, Operate(h, c, at), ~Gone(c),
             campaigns[c].status # "Sent",
             at # "start" => campaigns[c].status \in {"Draft", "Scheduled"}
      PROVE  CampaignIInv'
  BY <1>1, <1>2, ReadSafe DEF Operate, Resting
<1>3. Schedule(h, c) => CampaignIInv'
  BY <1>2 DEF Schedule, Gone, Reading
<1>4. Unschedule(h, c) => CampaignIInv'
  BY <1>2 DEF Unschedule, Gone, Reading
<1>5. Edit(h, c) => CampaignIInv'
  BY <1>2 DEF Edit, Editable, Gone, Reading
<1>6. SendNow(h, c) => CampaignIInv'
  BY <1>2 DEF SendNow, Sendable, Reading
<1> QED BY <1>3, <1>4, <1>5, <1>6

-----------------------------------------------------------------------------
(* Every step keeps the invariant *)

LEMMA CreateSafe ==
    ASSUME CampaignIInv, NEW c \in Newsletters,
           NEW recipients \in SUBSET People,
           CreateCampaign(c, recipients)
    PROVE  CampaignIInv'
<1> USE DEF CreateCampaign, campaignHistory
<1>1. campaigns[c] \in Campaign /\ CampaignOK(c)
  BY CampaignFacts
<1>2. CampaignTypeOK'
  BY <1>1, CampaignCountersTyped, CampaignTypeFacts
     DEF CampaignIInv, CampaignTypeOK, Campaign, CampaignStatus
<1>3. /\ campaigns'[c].status = "Draft"
      /\ \A d \in Newsletters \ {c} : campaigns'[d] = campaigns[d]
  BY <1>1, CampaignTypeFacts DEF CampaignIInv, Campaign
<1>4. Unmailed(c)' /\ \A w \in Senders : sending'[w].c # c
  BY <1>1 DEF CampaignOK, UnbornOK, Unmailed
<1>5. CampaignOK(c)'
  BY <1>3, <1>4, CampaignFacts, CampaignTypeFacts
     DEF CampaignOK, UnbornOK, UntangledOK, ComposedOK, At, Unmailed
<1> QED BY <1>2, <1>3, <1>5, NobodyMoves DEF CampaignIInv

LEMMA DeleteSafe ==
    ASSUME CampaignIInv, NEW c \in Newsletters, DeleteCampaign(c)
    PROVE  CampaignIInv'
<1> USE DEF DeleteCampaign, campaignHistory
<1>1. campaigns[c] \in Campaign /\ CampaignOK(c)
  BY CampaignFacts
<1>2. CampaignTypeOK'
  BY <1>1, CampaignCountersTyped, CampaignTypeFacts
     DEF CampaignIInv, CampaignTypeOK, Campaign, CampaignStatus
<1>3. /\ campaigns'[c].status = "deleted"
      /\ \A d \in Newsletters \ {c} : campaigns'[d] = campaigns[d]
  BY <1>1, CampaignTypeFacts DEF CampaignIInv, Campaign
<1>4. CampaignOK(c)'
  BY <1>1, <1>3
     DEF CampaignOK, UnbornOK, UntangledOK, ComposedOK, At, Unmailed
<1> QED BY <1>2, <1>3, <1>4, NobodyMoves DEF CampaignIInv

\* The clock and the suppression list.
LEMMA ListsSafe ==
    ASSUME CampaignIInv, CampaignTypeOK',
           UNCHANGED <<campaigns, sending, campaignHistory>>
    PROVE  CampaignIInv'
<1> USE DEF campaignHistory
<1>1. ASSUME NEW c \in Newsletters PROVE CampaignOK(c)'
  <2>1. Aside(c)
    BY DEF Aside
  <2> QED BY <2>1, AsideOK DEF CampaignIInv
<1>2. \A w \in Senders : WorkerOK(w)'
  BY DEF CampaignIInv, WorkerOK
<1> QED BY <1>1, <1>2 DEF CampaignIInv

LEMMA TimeSafe ==
    ASSUME CampaignIInv, NEW c \in Newsletters, TimeComes(c)
    PROVE  CampaignIInv'
<1>1. CampaignTypeOK'
  BY CampaignCountersTyped, CampaignTypeFacts
     DEF CampaignIInv, CampaignTypeOK, TimeComes, campaignHistory
<1> QED BY <1>1, ListsSafe DEF TimeComes

LEMMA UnsubscribeSafe ==
    ASSUME CampaignIInv, NEW p \in People, Unsubscribe(p) \/ Resubscribe(p)
    PROVE  CampaignIInv'
<1>1. CampaignTypeOK'
  BY CampaignCountersTyped, CampaignTypeFacts
     DEF CampaignIInv, CampaignTypeOK, Unsubscribe, Resubscribe, campaignHistory
<1> QED BY <1>1, ListsSafe DEF Unsubscribe, Resubscribe

\* A worker that is done with campaign c, which may have changed.
LEMMA DoneSafe ==
    ASSUME CampaignIInv, NEW w \in Senders, Finished(w),
           Request \/ Step \/ Fault,
           NEW c \in Newsletters, sending[w].c = c,
           campaigns' \in [Newsletters -> Campaign],
           \A d \in Newsletters \ {c} : campaigns'[d] = campaigns[d],
           scheduledFor' \subseteq Newsletters,
           UNCHANGED <<unsubscribed, campaignHistory>>,
           sending'[w].c # c => CampaignOK(c)'
    PROVE  CampaignIInv'
<1> USE DEF campaignHistory
<1>1. PICK s : /\ CampaignMoves(w, s) /\ s.c = NoNewsletter
               /\ s.at \in {"idle", "next"} /\ s.delivered = {}
  BY FinishedFacts
<1>2. sending' \in [Senders -> SendingJob] /\ sending'[w] = s
  BY <1>1, CampaignMovesFacts DEF CampaignIInv
<1>3. CampaignTypeOK'
  BY <1>2, CampaignCountersTyped, CampaignTypeFacts
     DEF CampaignIInv, CampaignTypeOK
<1>4. CampaignOK(c)'
  BY <1>1, <1>2, CampaignsAssumption
<1> QED BY <1>1, <1>3, <1>4, OneMoves DEF CampaignIInv

\* Who else is at campaign c, once worker w has left it.
LEMMA LeftFacts ==
    ASSUME CampaignIInv, NEW w \in Senders, Finished(w),
           NEW c \in Newsletters, sending[w].c = c
    PROVE  /\ sending'[w].c = NoNewsletter /\ NoNewsletter # c
           /\ \A v \in Senders \ {w} : sending'[v] = sending[v]
           /\ c \notin entangled =>
                  \A v \in Senders \ {w} : sending'[v].c # c
<1>1. PICK s : CampaignMoves(w, s) /\ s.c = NoNewsletter
  BY FinishedFacts
<1>2. sending'[w] = s /\ \A v \in Senders \ {w} : sending'[v] = sending[v]
  BY <1>1, CampaignMovesFacts DEF CampaignIInv
<1> QED BY <1>1, <1>2, CampaignFacts, CampaignsAssumption
        DEF CampaignOK, UntangledOK

\* A schedule or an edit has been saved, or could not be.
LEMMA LeftOK ==
    ASSUME CampaignIInv, NEW w \in Senders, Finished(w), NEW c \in Newsletters,
           At(w, c, {"schedule", "unschedule", "edit"}),
           UNCHANGED campaignHistory,
           \/ campaigns'[c].status = campaigns[c].status
           \/ ~Gone(c) /\ campaigns'[c].status \in {"Draft", "Scheduled"}
    PROVE  CampaignOK(c)'
<1> USE DEF campaignHistory
<1>1. CampaignOK(c) /\ sending[w].c = c
  BY CampaignFacts DEF At
<1>2. Unmailed(c)' <=> Unmailed(c)
  BY DEF Unmailed
<1>3. campaigns[c].status # "absent"
  BY <1>1 DEF CampaignOK, UnbornOK
<1>4. UnbornOK(c)'
  BY <1>3 DEF UnbornOK
<1>5. c \notin entangled =>
          /\ campaigns[c].status \in {"Draft", "Scheduled", "deleted"}
          /\ campaigns'[c].status \in {"Draft", "Scheduled", "deleted"}
          /\ campaigns'[c].status # "deleted" => Unmailed(c)
          /\ \A v \in Senders : sending'[v].c # c
  BY <1>1, LeftFacts DEF CampaignOK, UntangledOK, Gone
<1>6. c \notin entangled' => UntangledOK(c)'
  BY <1>2, <1>5 DEF UntangledOK, At
<1>7. ASSUME c \notin entangled' \union interrupted' PROVE ComposedOK(c)'
  <2>1. \A p \in People : mailings[c][p] <= 1
    BY <1>1, <1>7 DEF CampaignOK, ComposedOK
  <2> QED BY <1>5, <1>7, <2>1 DEF ComposedOK, At
<1> QED BY <1>4, <1>6, <1>7 DEF CampaignOK

LEMMA SaveScheduleSafe ==
    ASSUME CampaignIInv, NEW h \in Handlers, SaveSchedule(h)
    PROVE  CampaignIInv'
<1>1. h \in Senders /\ sending[h].at \in {"schedule", "unschedule", "edit"}
  BY DEF Senders, SaveSchedule
<1> PICK c \in Newsletters : sending[h].c = c
  BY <1>1, SenderFacts DEF WorkerOK
<1>0. At(h, c, {"schedule", "unschedule", "edit"})
  BY <1>1 DEF At
<1>2. campaigns[c] \in Campaign
  BY <1>1, CampaignFacts
<1>3. /\ campaigns' \in [Newsletters -> Campaign]
      /\ \A d \in Newsletters \ {c} : campaigns'[d] = campaigns[d]
      /\ Gone(c) => campaigns'[c] = campaigns[c]
      /\ ~Gone(c) => campaigns'[c].status \in {"Draft", "Scheduled"}
      /\ scheduledFor' \subseteq Newsletters
  BY <1>1, <1>2, CampaignTypeFacts DEF CampaignIInv, Campaign, CampaignStatus,
                                       SaveSchedule
<1>4. CampaignOK(c)'
  BY <1>0, <1>1, <1>3, LeftOK DEF SaveSchedule
<1> QED BY <1>1, <1>3, <1>4, DoneSafe DEF SaveSchedule, At

LEMMA SaveEditSafe ==
    ASSUME CampaignIInv, NEW h \in Handlers, NEW recipients \in SUBSET People,
           SaveEdit(h, recipients)
    PROVE  CampaignIInv'
<1>1. h \in Senders /\ sending[h].at \in {"schedule", "unschedule", "edit"}
  BY DEF Senders, SaveEdit
<1> PICK c \in Newsletters : sending[h].c = c
  BY <1>1, SenderFacts DEF WorkerOK
<1>0. At(h, c, {"schedule", "unschedule", "edit"})
  BY <1>1 DEF At
<1>2. campaigns[c] \in Campaign
  BY <1>1, CampaignFacts
<1>3. /\ campaigns' \in [Newsletters -> Campaign]
      /\ \A d \in Newsletters \ {c} : campaigns'[d] = campaigns[d]
      /\ campaigns'[c].status = campaigns[c].status
      /\ scheduledFor' \subseteq Newsletters
  BY <1>1, <1>2, CampaignTypeFacts DEF CampaignIInv, Campaign, CampaignStatus,
                                       SaveEdit
<1>4. CampaignOK(c)'
  BY <1>0, <1>1, <1>3, LeftOK DEF SaveEdit
<1> QED BY <1>1, <1>3, <1>4, DoneSafe DEF SaveEdit, At

-----------------------------------------------------------------------------
(* Sending *)

\* A run of the job that is between campaigns.
LEMMA RunSafe ==
    ASSUME CampaignIInv, NEW t \in Ticks, sending[t].at \in {"idle", "next"},
           NEW s, CampaignMoves(t, s), s.at \in {"idle", "next"},
           s.c = NoNewsletter, s.delivered = {}, Step,
           UNCHANGED <<campaigns, scheduledFor, unsubscribed,
                       campaignHistory>>
    PROVE  CampaignIInv'
<1> USE DEF campaignHistory
<1>1. t \in Senders /\ sending[t].c = NoNewsletter
  BY SenderFacts DEF Senders, WorkerOK
<1>2. /\ sending' \in [Senders -> SendingJob] /\ sending'[t] = s
      /\ \A v \in Senders \ {t} : sending'[v] = sending[v]
  BY <1>1, CampaignMovesFacts DEF CampaignIInv
<1>3. CampaignTypeOK'
  BY <1>2, CampaignCountersTyped, CampaignTypeFacts
     DEF CampaignIInv, CampaignTypeOK
<1>4. \A w \in Senders : WorkerOK(w)'
  BY <1>2 DEF CampaignIInv, WorkerOK
<1>5. ASSUME NEW c \in Newsletters PROVE CampaignOK(c)'
  <2>1. Aside(c)
    BY <1>1, <1>2, CampaignsAssumption DEF Aside
  <2> QED BY <2>1, AsideOK DEF CampaignIInv
<1> QED BY <1>3, <1>4, <1>5 DEF CampaignIInv

LEMMA StartRunSafe ==
    ASSUME CampaignIInv, NEW t \in Ticks, StartRun(t)
    PROVE  CampaignIInv'
<1> DEFINE listed == {c \in scheduledFor : campaigns[c].status = "Scheduled"}
           s == [AtRest EXCEPT !.at = "next", !.todo = listed]
<1>1. s \in SendingJob /\ s.at = "next" /\ s.c = NoNewsletter
      /\ s.delivered = {}
  BY CampaignTypeFacts DEF CampaignIInv, AtRest, SendingJob, CampaignStatus
<1>2. CampaignMoves(t, s)
  BY <1>1 DEF StartRun, CampaignMoves
<1> QED BY <1>1, <1>2, RunSafe DEF StartRun, Resting

LEMMA EndRunSafe ==
    ASSUME CampaignIInv, NEW t \in Ticks, EndRun(t)
    PROVE  CampaignIInv'
<1>1. CampaignMoves(t, AtRest)
  BY RestFacts DEF EndRun, CampaignMoves
<1> QED BY <1>1, RestFacts, RunSafe DEF EndRun

LEMMA SendListedSafe ==
    ASSUME CampaignIInv, NEW t \in Ticks, NEW c \in Newsletters,
           SendListed(t, c)
    PROVE  CampaignIInv'
<1>1. t \in Senders /\ sending[t].at = "next" /\ Step
  BY DEF Senders, SendListed
<1>2. CASE Sendable(c)
  BY <1>1, <1>2, ReadSafe DEF SendListed, Sendable, Reading
<1>3. CASE ~Sendable(c)
  <2> DEFINE s == [sending[t] EXCEPT !.todo = sending[t].todo \ {c}]
  <2>1. s \in SendingJob /\ s.at = "next" /\ s.c = NoNewsletter
        /\ s.delivered = {}
    BY <1>1, SenderFacts DEF SendingJob, WorkerOK
  <2>2. CampaignMoves(t, s)
    BY <1>1, <1>3, <2>1, CampaignTypeFacts
       DEF SendListed, CampaignMoves, CampaignIInv
  <2> QED BY <1>1, <1>3, <2>1, <2>2, RunSafe DEF SendListed, campaignHistory
<1> QED BY <1>2, <1>3

\* A worker that goes on with campaign c, which nobody loses sight of.
LEMMA GoesOnSafe ==
    ASSUME CampaignIInv, NEW w \in Senders, NEW s, CampaignMoves(w, s), Step,
           NEW c \in Newsletters, sending[w].c = c, s.c = c,
           s.at \notin {"idle", "next"}, s.at # "mail" => s.delivered = {},
           campaigns' \in [Newsletters -> Campaign],
           \A d \in Newsletters \ {c} : campaigns'[d] = campaigns[d],
           mailings' \in [Newsletters -> [People -> Nat]],
           \A d \in Newsletters \ {c} : mailings'[d] = mailings[d],
           UNCHANGED <<scheduledFor, unsubscribed, entangled, interrupted>>,
           CampaignOK(c)'
    PROVE  CampaignIInv'
<1>1. sending' \in [Senders -> SendingJob]
  BY CampaignMovesFacts DEF CampaignIInv
<1>2. CampaignTypeOK'
  BY <1>1, CampaignCountersTyped, CampaignTypeFacts
     DEF CampaignIInv, CampaignTypeOK
<1> QED BY <1>2, OneMoves, CampaignsAssumption DEF CampaignIInv

\* Worker w leaves a campaign that is gone.
LEMMA GoneOK ==
    ASSUME CampaignIInv, NEW w \in Senders, Finished(w), NEW c \in Newsletters,
           sending[w].c = c, Gone(c), campaigns' = campaigns,
           UNCHANGED campaignHistory
    PROVE  CampaignOK(c)'
<1> USE DEF campaignHistory
<1>1. campaigns[c].status = "deleted"
  BY CampaignFacts DEF CampaignOK, UnbornOK, Gone
<1>2. UnbornOK(c)'
  BY <1>1 DEF UnbornOK
<1>3. c \notin entangled' => UntangledOK(c)'
  BY <1>1, LeftFacts DEF UntangledOK, At
<1>4. ASSUME c \notin entangled' \union interrupted' PROVE ComposedOK(c)'
  <2>1. \A p \in People : mailings[c][p] <= 1
    BY <1>4, CampaignFacts DEF CampaignOK, ComposedOK
  <2>2. \A v \in Senders : sending'[v].c # c
    BY <1>4, LeftFacts
  <2> QED BY <1>1, <2>1, <2>2 DEF ComposedOK, At
<1> QED BY <1>2, <1>3, <1>4 DEF CampaignOK

LEMMA SaveSendingSafe ==
    ASSUME CampaignIInv, NEW w \in Senders, SaveSending(w)
    PROVE  CampaignIInv'
<1> USE DEF campaignHistory
<1>1. sending[w].at = "start"
  BY DEF SaveSending
<1> PICK c \in Newsletters : sending[w].c = c
  BY <1>1, SenderFacts DEF WorkerOK
<1>2. CampaignOK(c) /\ campaigns[c] \in Campaign
  BY CampaignFacts
<1>3. CASE Gone(c)
  <2>1. CampaignOK(c)'
    BY <1>3, GoneOK DEF SaveSending
  <2> QED BY <1>3, <2>1, CampaignTypeFacts, DoneSafe
             DEF SaveSending, CampaignIInv
<1>4. CASE ~Gone(c)
  <2> DEFINE s == [sending[w] EXCEPT !.at = "suppress"]
  <2>1. /\ s \in SendingJob /\ s.at = "suppress" /\ s.c = c
        /\ s.delivered = {} /\ s.version = sending[w].version
    BY <1>1, SenderFacts DEF SendingJob, WorkerOK
  <2>2. CampaignMoves(w, s)
    BY <1>4, <2>1, CampaignTypeFacts DEF SaveSending, Passed, CampaignMoves,
                                         CampaignIInv
  <2>3. /\ sending'[w] = s
        /\ \A v \in Senders \ {w} : sending'[v] = sending[v]
    BY <2>2, CampaignMovesFacts DEF CampaignIInv
  <2> HIDE DEF s
  <2>4. /\ campaigns' \in [Newsletters -> Campaign]
        /\ \A d \in Newsletters \ {c} : campaigns'[d] = campaigns[d]
        /\ campaigns'[c].status = IF sending[w].seen = "Sending"
                                  THEN campaigns[c].status ELSE "Sending"
        /\ campaigns'[c].version = campaigns[c].version
    <3> DEFINE st == IF sending[w].seen = "Sending"
                     THEN campaigns[c].status ELSE "Sending"
    <3>1. campaigns' = [campaigns EXCEPT ![c] =
                           [campaigns[c] EXCEPT !.status = st]]
      BY <1>2, <1>4, CampaignTypeFacts DEF SaveSending, CampaignIInv
    <3>2. st \in CampaignStatus
      BY CampaignFacts DEF CampaignStatus
    <3> HIDE DEF st
    <3>3. [campaigns[c] EXCEPT !.status = st] \in Campaign
      BY <1>2, <3>2 DEF Campaign
    <3>4. /\ campaigns' \in [Newsletters -> Campaign]
          /\ \A d \in Newsletters \ {c} : campaigns'[d] = campaigns[d]
          /\ campaigns'[c].status = st
          /\ campaigns'[c].version = campaigns[c].version
      BY <1>2, <3>1, <3>3, CampaignTypeFacts DEF CampaignIInv, Campaign
    <3> QED BY <3>4 DEF st
  <2>5. Unmailed(c)' <=> Unmailed(c)
    BY DEF SaveSending, Unmailed
  <2>6. UNCHANGED <<mailings, entangled, interrupted>>
    BY DEF SaveSending
  <2>7. UnbornOK(c)'
    BY <1>4, <2>4 DEF UnbornOK, Gone
  <2>8. c \notin entangled =>
            campaigns'[c].status = "Sending"
            /\ \A v \in Senders \ {w} : sending[v].c # c
    BY <1>1, <1>2, <1>4, <2>4 DEF CampaignOK, UntangledOK, At, Gone
  <2>9. c \notin entangled' => UntangledOK(c)'
    BY <1>2, <2>1, <2>3, <2>4, <2>6, <2>8 DEF CampaignOK, UntangledOK, At
  <2>10. ASSUME c \notin entangled' \union interrupted'
         PROVE  ComposedOK(c)'
    <3>1. Unmailed(c) /\ \A p \in People : mailings[c][p] <= 1
      BY <1>1, <1>2, <2>6, <2>10 DEF CampaignOK, ComposedOK, At
    <3> QED BY <2>1, <2>3, <2>5, <2>6, <2>8, <2>10, <3>1
            DEF ComposedOK, At
  <2>11. CampaignOK(c)'
    BY <2>7, <2>9, <2>10 DEF CampaignOK
  <2> QED BY <2>1, <2>2, <2>4, <2>6, <2>11, CampaignTypeFacts, GoesOnSafe
          DEF SaveSending, CampaignIInv
<1> QED BY <1>3, <1>4

LEMMA SuppressSafe ==
    ASSUME CampaignIInv, NEW w \in Senders, Suppress(w)
    PROVE  CampaignIInv'
<1> USE DEF campaignHistory
<1>1. sending[w].at = "suppress"
  BY DEF Suppress
<1> PICK c \in Newsletters : sending[w].c = c
  BY <1>1, SenderFacts DEF WorkerOK
<1>2. CampaignOK(c)
  BY CampaignFacts
<1> DEFINE s == [sending[w] EXCEPT !.at = "mail",
                    !.left = sending[w].recipients \ unsubscribed]
<1>3. /\ s \in SendingJob /\ s.at = "mail" /\ s.c = c
      /\ s.delivered = {} /\ s.version = sending[w].version
  BY <1>1, SenderFacts DEF SendingJob, WorkerOK
<1>4. CampaignMoves(w, s)
  BY <1>3, CampaignTypeFacts DEF Suppress, CampaignMoves, CampaignIInv
<1>5. sending'[w] = s /\ \A v \in Senders \ {w} : sending'[v] = sending[v]
  BY <1>4, CampaignMovesFacts DEF CampaignIInv
<1> HIDE DEF s
<1>6. UNCHANGED <<campaigns, mailings, entangled, interrupted>>
  BY DEF Suppress
<1>7. UnbornOK(c)'
  BY <1>2, <1>6 DEF CampaignOK, UnbornOK, Unmailed
<1>8. c \notin entangled' => UntangledOK(c)'
  BY <1>1, <1>2, <1>3, <1>5, <1>6
     DEF CampaignOK, UntangledOK, At, Unmailed
<1>9. ASSUME c \notin entangled' \union interrupted' PROVE ComposedOK(c)'
  <2>1. Unmailed(c) /\ \A v \in Senders \ {w} : sending[v].c # c
    BY <1>1, <1>2, <1>6, <1>9 DEF CampaignOK, ComposedOK, UntangledOK, At
  <2>2. campaigns[c].status \in {"Sending", "deleted"}
    BY <1>1, <1>2, <1>6, <1>9 DEF CampaignOK, UntangledOK, At
  <2> QED BY <1>2, <1>3, <1>5, <1>6, <1>9, <2>1, <2>2
          DEF CampaignOK, ComposedOK, At, Unmailed
<1>10. CampaignOK(c)'
  BY <1>7, <1>8, <1>9 DEF CampaignOK
<1> QED BY <1>3, <1>4, <1>6, <1>10, CampaignTypeFacts, GoesOnSafe
           DEF Suppress, CampaignIInv

LEMMA MailSafe ==
    ASSUME CampaignIInv, NEW w \in Senders, NEW p \in People,
           NEW arrived \in BOOLEAN, Mail(w, p, arrived)
    PROVE  CampaignIInv'
<1>1. sending[w].at = "mail" /\ p \in sending[w].left
  BY DEF Mail
<1> PICK c \in Newsletters : sending[w].c = c
  BY <1>1, SenderFacts DEF WorkerOK
<1>2. CampaignOK(c)
  BY CampaignFacts
<1> DEFINE s == [sending[w] EXCEPT !.left = sending[w].left \ {p},
                    !.delivered = Noted(sending[w].delivered, p, arrived)]
<1>3. /\ s \in SendingJob /\ s.at = "mail" /\ s.c = c
      /\ s.version = sending[w].version
      /\ s.left = sending[w].left \ {p}
      /\ s.delivered = IF arrived THEN sending[w].delivered \union {p}
                       ELSE sending[w].delivered
  BY <1>1, SenderFacts DEF SendingJob, WorkerOK, Noted
<1>4. CampaignMoves(w, s)
  BY <1>3, SenderFacts, CampaignTypeFacts
     DEF Mail, CampaignMoves, CampaignIInv, SendingJob
<1>5. sending'[w] = s /\ \A v \in Senders \ {w} : sending'[v] = sending[v]
  BY <1>4, CampaignMovesFacts DEF CampaignIInv
<1> HIDE DEF s
<1>6. /\ mailings' \in [Newsletters -> [People -> Nat]]
      /\ \A d \in Newsletters \ {c} : mailings'[d] = mailings[d]
      /\ \A q \in People : mailings'[c][q] =
             IF arrived /\ q = p THEN mailings[c][q] + 1 ELSE mailings[c][q]
  BY CampaignTypeFacts, CampaignFacts DEF Mail, CampaignIInv
<1>7. UNCHANGED <<campaigns, entangled, interrupted>>
  BY DEF Mail
<1>8. UnbornOK(c)'
  BY <1>2, <1>7 DEF CampaignOK, UnbornOK
<1>9. c \notin entangled =>
          campaigns[c].status \in {"Sending", "deleted"}
  BY <1>1, <1>2 DEF CampaignOK, UntangledOK, At
<1>10. c \notin entangled' => UntangledOK(c)'
  BY <1>1, <1>2, <1>3, <1>5, <1>7, <1>9 DEF CampaignOK, UntangledOK, At
<1>11. ASSUME c \notin entangled' \union interrupted' PROVE ComposedOK(c)'
  <2>1. /\ \A v \in Senders \ {w} : sending[v].c # c
        /\ \A q \in People : mailings[c][q] =
               IF q \in sending[w].delivered THEN 1 ELSE 0
        /\ sending[w].left \intersect sending[w].delivered = {}
    BY <1>1, <1>2, <1>7, <1>11 DEF CampaignOK, ComposedOK, UntangledOK, At
  <2>2. /\ \A q \in People : mailings'[c][q] =
               IF q \in s.delivered THEN 1 ELSE 0
        /\ s.left \intersect s.delivered = {}
    BY <1>1, <1>3, <1>6, <2>1
  <2>3. \A q \in People : mailings'[c][q] <= 1
    BY <2>2
  <2> QED BY <1>3, <1>5, <1>7, <1>9, <1>11, <2>1, <2>2, <2>3
          DEF ComposedOK, At
<1>12. CampaignOK(c)'
  BY <1>8, <1>10, <1>11 DEF CampaignOK
<1> QED BY <1>3, <1>4, <1>6, <1>7, <1>12, CampaignTypeFacts, GoesOnSafe
        DEF Mail, CampaignIInv

LEMMA SaveSentSafe ==
    ASSUME CampaignIInv, NEW w \in Senders, SaveSent(w)
    PROVE  CampaignIInv'
<1> USE DEF campaignHistory
<1>1. sending[w].at = "mail" /\ Finished(w) /\ Step
  BY DEF SaveSent
<1> PICK c \in Newsletters : sending[w].c = c
  BY <1>1, SenderFacts DEF WorkerOK
<1>2. CampaignOK(c) /\ campaigns[c] \in Campaign
  BY CampaignFacts
<1>3. /\ campaigns' \in [Newsletters -> Campaign]
      /\ \A d \in Newsletters \ {c} : campaigns'[d] = campaigns[d]
  BY <1>2, SenderFacts, CampaignTypeFacts
     DEF SaveSent, CampaignIInv, Campaign, CampaignStatus
<1>4. UNCHANGED <<scheduledFor, unsubscribed, mailings, entangled,
                  interrupted>>
  BY DEF SaveSent
<1>5. campaigns[c].status # "absent"
  BY <1>2 DEF CampaignOK, UnbornOK
<1>6. campaigns'[c].status = "Sent"
      \/ campaigns' = campaigns
  BY <1>2, CampaignTypeFacts DEF SaveSent, CampaignIInv, Campaign
<1>7. UnbornOK(c)'
  BY <1>5, <1>6 DEF UnbornOK
<1>8. c \notin entangled =>
          /\ campaigns[c].status \in {"Sending", "deleted"}
          /\ campaigns[c].version = sending[w].version
          /\ \A v \in Senders : sending'[v].c # c
  BY <1>1, <1>2, LeftFacts DEF CampaignOK, UntangledOK, At
<1>9. c \notin entangled' => UntangledOK(c)'
  BY <1>4, <1>6, <1>8 DEF UntangledOK, At
<1>10. ASSUME c \notin entangled' \union interrupted' PROVE ComposedOK(c)'
  <2>1. \A q \in People : mailings[c][q] =
            IF q \in sending[w].delivered THEN 1 ELSE 0
    BY <1>1, <1>2, <1>4, <1>10 DEF CampaignOK, ComposedOK, At
  <2>2. /\ \A q \in People : mailings[c][q] <= 1
        /\ {q \in People : mailings[c][q] > 0} = sending[w].delivered
    BY <2>1, SenderFacts
  <2>3. CASE Gone(c)
    <3>1. campaigns'[c].status = "deleted"
      BY <1>5, <2>3 DEF SaveSent, Gone
    <3> QED BY <1>4, <1>8, <1>10, <2>2, <3>1 DEF ComposedOK, At
  <2>4. CASE ~Gone(c)
    <3>1. /\ campaigns'[c].status = "Sent"
          /\ campaigns'[c].delivered = sending[w].delivered
      BY <1>2, <1>4, <1>8, <1>10, <2>4, CampaignTypeFacts
         DEF SaveSent, CampaignIInv, Campaign
    <3> QED BY <1>4, <1>8, <1>10, <2>2, <3>1 DEF ComposedOK, At
  <2> QED BY <2>3, <2>4
<1>11. CampaignOK(c)'
  BY <1>7, <1>9, <1>10 DEF CampaignOK
<1> QED BY <1>1, <1>3, <1>4, <1>11, CampaignTypeFacts, DoneSafe DEF CampaignIInv

LEMMA FaultSafe ==
    ASSUME CampaignIInv, NEW w \in Senders, CampaignFault(w)
    PROVE  CampaignIInv'
<1>1. sending[w].c # NoNewsletter /\ Fault
  BY DEF CampaignFault
<1> PICK c \in Newsletters : sending[w].c = c
  BY <1>1, SenderFacts
<1>2. CampaignOK(c)
  BY CampaignFacts
<1>3. PICK s : /\ CampaignMoves(w, s) /\ s.c = NoNewsletter
               /\ s.at \in {"idle", "next"} /\ s.delivered = {}
  BY FinishedFacts, RestFacts DEF CampaignFault, CampaignMoves
<1>4. /\ sending' \in [Senders -> SendingJob] /\ sending'[w] = s
      /\ \A v \in Senders \ {w} : sending'[v] = sending[v]
  BY <1>3, CampaignMovesFacts DEF CampaignIInv
<1>5. /\ UNCHANGED <<campaigns, scheduledFor, unsubscribed, mailings,
                     entangled>>
      /\ interrupted' = interrupted \union {c}
  BY DEF CampaignFault
<1>6. CampaignTypeOK'
  BY <1>1, <1>4, <1>5, CampaignCountersTyped, CampaignTypeFacts
     DEF CampaignIInv, CampaignTypeOK
<1>7. UnbornOK(c)'
  BY <1>2, <1>5 DEF CampaignOK, UnbornOK
<1>8. c \notin entangled' => UntangledOK(c)'
  BY <1>2, <1>3, <1>4, <1>5, CampaignsAssumption
     DEF CampaignOK, UntangledOK, At, Unmailed
<1>9. CampaignOK(c)'
  BY <1>5, <1>7, <1>8 DEF CampaignOK
<1> QED BY <1>3, <1>5, <1>6, <1>9, OneMoves DEF CampaignIInv

-----------------------------------------------------------------------------
(* The theorems *)

LEMMA CampaignInitSafe == CampaignInit => CampaignIInv
<1> SUFFICES ASSUME CampaignInit PROVE CampaignIInv
  OBVIOUS
<1> USE DEF CampaignInit
<1>1. CampaignTypeOK
  BY RestFacts DEF CampaignTypeOK, Nothing, Campaign, CampaignStatus
<1>2. \A w \in Senders : WorkerOK(w)
  BY RestFacts DEF WorkerOK
<1>3. ASSUME NEW c \in Newsletters PROVE CampaignOK(c)
  <2>1. campaigns[c].status = "absent" /\ Unmailed(c)
    BY DEF Nothing, Unmailed
  <2>2. \A w \in Senders : sending[w].c # c
    BY RestFacts, CampaignsAssumption
  <2>3. \A p \in People : mailings[c][p] = 0
    BY <2>1 DEF Unmailed
  <2> QED BY <2>1, <2>2, <2>3
          DEF CampaignOK, UnbornOK, UntangledOK, ComposedOK, At
<1> QED BY <1>1, <1>2, <1>3 DEF CampaignIInv

LEMMA CampaignStepSafe ==
    ASSUME CampaignIInv, [CampaignNext]_campaignVars
    PROVE  CampaignIInv'
<1>1. CASE UNCHANGED campaignVars
  <2>1. CampaignTypeOK'
    BY <1>1 DEF CampaignIInv, CampaignTypeOK, campaignVars, campaignHistory
  <2> QED BY <1>1, <2>1, ListsSafe DEF campaignVars
<1>2. ASSUME NEW c \in Newsletters
      PROVE  /\ \A recipients \in SUBSET People :
                    CreateCampaign(c, recipients) => CampaignIInv'
             /\ DeleteCampaign(c) \/ TimeComes(c) => CampaignIInv'
  BY CreateSafe, DeleteSafe, TimeSafe
<1>3. ASSUME NEW p \in People, Unsubscribe(p) \/ Resubscribe(p)
      PROVE  CampaignIInv'
  BY <1>3, UnsubscribeSafe
<1>4. ASSUME NEW h \in Handlers
      PROVE  /\ SaveSchedule(h) => CampaignIInv'
             /\ \A recipients \in SUBSET People :
                    SaveEdit(h, recipients) => CampaignIInv'
  BY SaveScheduleSafe, SaveEditSafe
<1>5. ASSUME NEW t \in Ticks
      PROVE  StartRun(t) \/ EndRun(t) => CampaignIInv'
  BY StartRunSafe, EndRunSafe
<1>6. ASSUME NEW w \in Senders
      PROVE  /\ SaveSending(w) \/ Suppress(w) \/ SaveSent(w) => CampaignIInv'
             /\ \A p \in People, arrived \in BOOLEAN :
                    Mail(w, p, arrived) => CampaignIInv'
             /\ CampaignFault(w) => CampaignIInv'
  BY SaveSendingSafe, SuppressSafe, SaveSentSafe, MailSafe, FaultSafe
<1> QED BY <1>1, <1>2, <1>3, <1>4, <1>5, <1>6, OperateSafe, SendListedSafe
        DEF CampaignNext

LEMMA CampaignInvariance == CampaignSpec => []CampaignIInv
BY CampaignInitSafe, CampaignStepSafe, PTL DEF CampaignSpec

\* Every variable keeps its type.
THEOREM CampaignTypeCorrect == CampaignSpec => []CampaignTypeOK
BY CampaignInvariance, PTL DEF CampaignIInv

LEMMA CampaignFollows == ASSUME CampaignIInv PROVE MailedOnce /\ DeliveredGotIt
BY DEF CampaignIInv, CampaignOK, ComposedOK, MailedOnce, DeliveredGotIt

\* No person gets a campaign twice that one worker at a time was at and that
\* no fault interrupted.
THEOREM NobodyMailedTwice == CampaignSpec => []MailedOnce
<1>1. CampaignIInv => MailedOnce
  BY CampaignFollows
<1> QED BY <1>1, CampaignInvariance, PTL

\* Those marked as having got a campaign are those that got it.
THEOREM MarkedGotIt == CampaignSpec => []DeliveredGotIt
<1>1. CampaignIInv => DeliveredGotIt
  BY CampaignFollows
<1> QED BY <1>1, CampaignInvariance, PTL

\* Steps of the life of a campaign leave its recipients alone.
LEMMA RecipientsKept ==
    ASSUME CampaignIInv, NEW c \in Newsletters, NEW d \in Newsletters,
           NEW w \in Senders
    PROVE  DeleteCampaign(d) \/ SaveSchedule(w) \/ SaveSending(w)
               \/ SaveSent(w)
           => campaigns'[c].recipients = campaigns[c].recipients
<1> campaigns[c] \in Campaign /\ campaigns[d] \in Campaign
    /\ sending[w].c \in Newsletters \union {NoNewsletter}
  BY CampaignFacts, SenderFacts
<1> campaigns \in [Newsletters -> Campaign]
  BY CampaignTypeFacts DEF CampaignIInv
<1>1. DeleteCampaign(d) =>
          campaigns'[c].recipients = campaigns[c].recipients
  BY DEF DeleteCampaign, Campaign
<1>2. SaveSchedule(w) => campaigns'[c].recipients = campaigns[c].recipients
  BY DEF SaveSchedule, Campaign
<1>3. SaveSending(w) => campaigns'[c].recipients = campaigns[c].recipients
  BY DEF SaveSending, Campaign
<1>4. SaveSent(w) => campaigns'[c].recipients = campaigns[c].recipients
  BY DEF SaveSent, Campaign
<1> QED BY <1>1, <1>2, <1>3, <1>4

LEMMA RecipientsSettled ==
    ASSUME CampaignIInv, [CampaignNext]_campaignVars, NEW c \in Newsletters,
           c \notin entangled',
           campaigns'[c].recipients # campaigns[c].recipients
    PROVE  \A p \in People : mailings[c][p] = 0
<1>1. campaigns' # campaigns
  OBVIOUS
<1>2. CampaignOK(c) /\ campaigns[c] \in Campaign
  BY CampaignFacts
<1>3. campaigns \in [Newsletters -> Campaign]
  BY CampaignTypeFacts DEF CampaignIInv
<1>4. Handlers \subseteq Senders /\ Ticks \subseteq Senders
  BY DEF Senders
<1>5. ASSUME NEW d \in Newsletters, NEW recipients \in SUBSET People,
             CreateCampaign(d, recipients)
      PROVE  Unmailed(c)
  <2>1. d = c
    BY <1>3, <1>5 DEF CreateCampaign
  <2> QED BY <1>2, <1>5, <2>1 DEF CreateCampaign, CampaignOK, UnbornOK
<1>6. ASSUME NEW h \in Handlers, NEW recipients \in SUBSET People,
             SaveEdit(h, recipients)
      PROVE  Unmailed(c)
  <2>1. sending[h].c = c /\ ~Gone(c) /\ sending[h].at = "edit"
        /\ entangled' = entangled
    BY <1>1, <1>3, <1>6 DEF SaveEdit, campaignHistory
  <2> QED BY <1>2, <1>4, <2>1
          DEF CampaignOK, UntangledOK, At, Gone
<1>7. CampaignNext
  BY <1>1 DEF campaignVars
<1>8. ASSUME NEW d \in Newsletters, NEW h \in Handlers
      PROVE  ~(Schedule(h, d) \/ Unschedule(h, d) \/ Edit(h, d)
               \/ SendNow(h, d) \/ TimeComes(d))
  BY <1>1 DEF Schedule, Unschedule, Edit, SendNow, TimeComes, Operate
<1>9. ASSUME NEW t \in Ticks
      PROVE  ~(StartRun(t) \/ EndRun(t)
               \/ \E d \in Newsletters : SendListed(t, d))
  BY <1>1 DEF StartRun, EndRun, SendListed
<1>10. ASSUME NEW w \in Senders
       PROVE  ~(Suppress(w) \/ CampaignFault(w)
                \/ \E p \in People, arrived \in BOOLEAN :
                       Mail(w, p, arrived))
  BY <1>1 DEF Suppress, Mail, CampaignFault
<1>11. \A p \in People : ~Unsubscribe(p) /\ ~Resubscribe(p)
  BY <1>1 DEF Unsubscribe, Resubscribe
<1>12. ASSUME NEW d \in Newsletters PROVE ~TimeComes(d)
  BY <1>1 DEF TimeComes
<1>13. ASSUME NEW d \in Newsletters, DeleteCampaign(d) PROVE FALSE
  <2>1. campaigns[d] \in Campaign
    BY CampaignFacts
  <2> QED BY <1>2, <1>3, <1>13, <2>1 DEF DeleteCampaign, Campaign
<1>14. ASSUME NEW w \in Senders
       PROVE  ~(SaveSchedule(w) \/ SaveSending(w) \/ SaveSent(w))
  BY RecipientsKept
<1>15. Unmailed(c)
  BY <1>4, <1>5, <1>6, <1>7, <1>8, <1>9, <1>10, <1>11, <1>12, <1>13,
     <1>14 DEF CampaignNext
<1> QED BY <1>15 DEF Unmailed

\* Whom a campaign goes to changes only while nobody has it.
THEOREM AudienceFixedOnceMailed == CampaignSpec => AudienceStands
<1>1. CampaignIInv /\ [CampaignNext]_campaignVars =>
          [\A c \in Newsletters \ entangled' :
              campaigns'[c].recipients # campaigns[c].recipients =>
                  \A p \in People : mailings[c][p] = 0]_campaignVars
  BY RecipientsSettled
<1> QED BY <1>1, CampaignInvariance, PTL DEF CampaignSpec, AudienceStands

-----------------------------------------------------------------------------
(* Resolutions *)

(***************************************************************************)
(* What a request that is about to save relies on.  JobFits: which of the  *)
(* document it has changed, and that it read the rows of its version.      *)
(* Late: a written resolution that was closed has a newer version than any *)
(* request knows that would write its rows.                                *)
(***************************************************************************)
JobFits(j, doc) ==
    /\ doc.status # "absent"
    /\ j.read.status \notin {"absent", "Closed"} /\ j.new.status # "absent"
    /\ j.read.type = doc.type /\ j.read.rule = doc.rule
    /\ j.read.version <= doc.version
    /\ j.read.version = doc.version => j.read.rows = doc.rows
    /\ j.op = "row" =>
           /\ j.d \in Directors
           /\ \A d \in Directors \ {j.d} : j.new.rows[d] = j.read.rows[d]
    /\ j.op \notin Type => j.new.status # "Closed"
    /\ j.op \in Type =>
           /\ j.new = [j.read EXCEPT !.outcome = Verdict(j.read, j.op),
                                     !.status = "Closed"]
           /\ Closable(j.read, j.op)

Late(j, doc) ==
    doc.type = "Written" /\ doc.status = "Closed" /\ j.op = "row" =>
        j.read.version < doc.version

JobOK(h) ==
    voting[h] # Unseated =>
        /\ JobFits(voting[h], resolutions[voting[h].r])
        /\ voting[h].r \notin misrouted =>
               Late(voting[h], resolutions[voting[h].r])

RuleOK(r) ==
    resolutions[r].type # "Shareholder" => resolutions[r].rule = "Simple"

ResolutionIInv ==
    /\ ResolutionTypeOK
    /\ \A h \in Handlers : JobOK(h)
    /\ \A r \in Resolutions : RuleOK(r)
    /\ OutcomeFollowsVotes

-----------------------------------------------------------------------------
(* The outcome *)

LEMMA SplitCount ==
    ASSUME NEW E \in SUBSET Directors, NEW A \in SUBSET E
    PROVE  /\ Cardinality(A) \in Nat /\ Cardinality(E \ A) \in Nat
           /\ Cardinality(E) = Cardinality(A) + Cardinality(E \ A)
<1>1. IsFiniteSet(E) /\ IsFiniteSet(A) /\ IsFiniteSet(E \ A)
  BY ResolutionsAssumption, FS_Subset
<1>2. A \union (E \ A) = E /\ A \intersect (E \ A) = {}
  OBVIOUS
<1>3. Cardinality(A \union (E \ A))
          = Cardinality(A) + Cardinality(E \ A)
                - Cardinality(A \intersect (E \ A))
  BY <1>1, FS_Union
<1>4. Cardinality(A) \in Nat /\ Cardinality(E \ A) \in Nat
  BY <1>1, FS_CardinalityType
<1>5. Cardinality({}) = 0
  BY FS_EmptySet
<1>6. Cardinality(E) = Cardinality(A) + Cardinality(E \ A) - 0
  BY <1>2, <1>3, <1>5
<1> QED
  BY <1>4, <1>6

\* computeOutcome and tally find the majority that the property asks for.
LEMMA VerdictOK ==
    ASSUME NEW doc \in Resolution, Closable(doc, doc.type),
           doc.type # "Shareholder" => doc.rule = "Simple"
    PROVE  RightlyClosed([doc EXCEPT !.outcome = Verdict(doc, doc.type),
                                     !.status = "Closed"])
<1> DEFINE new == [doc EXCEPT !.outcome = Verdict(doc, doc.type),
                              !.status = "Closed"]
<1>1. /\ new.outcome = Verdict(doc, doc.type) /\ new.type = doc.type
      /\ new.rows = doc.rows /\ new.poll = doc.poll /\ new.rule = doc.rule
      /\ doc.poll \in PollFigures /\ doc.type \in Type
      /\ doc.rule \in {"Simple", "Special"}
      /\ doc.rows \in [Directors -> Row]
  BY DEF Resolution
<1>2. CASE doc.type = "Shareholder"
  <2>1. Majority(new) <=> Carried(doc, doc.type)
    BY <1>1, <1>2 DEF Majority, Carried, Carries, PollFigures
  <2> QED
    BY <1>1, <1>2, <2>1 DEF RightlyClosed, Verdict, Closable
<1>3. CASE doc.type # "Shareholder"
  <2> DEFINE E == {d \in Directors : ~doc.rows[d].recused}
             A == {d \in E : doc.rows[d].vote = "Approve"}
  <2>1. Eligible(doc, doc.type) = E /\ Voters(doc, doc.type, "Approve") = A
    BY DEF Eligible, Voters
  <2>2. /\ {d \in Directors : ~doc.rows[d].recused
                 /\ doc.rows[d].vote = "Approve"} = A
        /\ {d \in Directors : ~doc.rows[d].recused
                 /\ doc.rows[d].vote # "Approve"} = E \ A
    OBVIOUS
  <2>3. /\ Cardinality(A) \in Nat /\ Cardinality(E \ A) \in Nat
        /\ Cardinality(E) = Cardinality(A) + Cardinality(E \ A)
    BY SplitCount
  <2>4. Majority(new) <=> Cardinality(A) > Cardinality(E \ A)
    BY <1>1, <1>3, <2>2 DEF Majority
  <2>5. Carried(doc, doc.type) <=>
            Cardinality(E) > 0 /\ 2 * Cardinality(A) > Cardinality(E)
    BY <1>3, <2>1 DEF Carried, Carries
  <2> HIDE DEF E, A
  <2>6. Majority(new) <=> Carried(doc, doc.type)
    BY <2>3, <2>4, <2>5
  <2>7. doc.type = "Board" => \A d \in Directors :
            doc.rows[d].recused \/ doc.rows[d].vote # "none"
    BY DEF Closable, Eligible, Voters
  <2> QED
    BY <1>1, <1>3, <2>6, <2>7 DEF RightlyClosed, Verdict
<1> QED
  BY <1>2, <1>3

-----------------------------------------------------------------------------
(* Steps *)

LEMMA DocTyped ==
    ASSUME ResolutionTypeOK, NEW r \in Resolutions
    PROVE  resolutions[r] \in Resolution
BY DEF ResolutionTypeOK

LEMMA JobTyped ==
    ASSUME ResolutionTypeOK, NEW h \in Handlers, voting[h] # Unseated
    PROVE  voting[h] \in VotingJob
BY DEF ResolutionTypeOK

\* The request that comes in fits what it has just read.
LEMMA ReadsStep ==
    ASSUME ResolutionIInv, NEW h \in Handlers, NEW r \in Resolutions,
           NEW op \in {"row", "poll", "proxy"} \union Type,
           NEW d \in Directors \union {NoDirector}, NEW new \in Resolution,
           Reads(h, op, r, d, new),
           JobFits([op |-> op, r |-> r, d |-> d, read |-> resolutions[r],
                    new |-> new], resolutions[r])
    PROVE  ResolutionIInv'
<1> DEFINE j == [op |-> op, r |-> r, d |-> d, read |-> resolutions[r],
                 new |-> new]
<1>1. /\ resolutions' = resolutions /\ overtaken' = overtaken
      /\ misrouted' = misrouted /\ resolutions[r].status # "Closed"
      /\ voting' = [voting EXCEPT ![h] = j]
  BY DEF Reads, boardHistory, OpenToChange
<1>2. j \in VotingJob /\ j.op = op /\ j.r = r
  BY DocTyped DEF ResolutionIInv, VotingJob
<1>3. ResolutionTypeOK'
  BY <1>1, <1>2 DEF ResolutionIInv, ResolutionTypeOK, Reads, Request
<1>4. ASSUME NEW g \in Handlers
      PROVE  JobOK(g)'
  <2>1. CASE g = h
    <3>1. voting'[g] = j
      BY <1>1, <2>1 DEF ResolutionIInv, ResolutionTypeOK
    <3>2. JobFits(j, resolutions[r]) /\ Late(j, resolutions[r])
      BY <1>1 DEF Late
    <3> QED
      BY <1>1, <1>2, <3>1, <3>2 DEF JobOK
  <2>2. CASE g # h
    <3>1. voting'[g] = voting[g]
      BY <1>1, <2>2 DEF ResolutionIInv, ResolutionTypeOK
    <3> QED
      BY <1>1, <3>1 DEF ResolutionIInv, JobOK
  <2> QED
    BY <2>1, <2>2
<1>5. ASSUME NEW s \in Resolutions
      PROVE  RuleOK(s)'
  BY <1>1 DEF ResolutionIInv, RuleOK
<1>6. OutcomeFollowsVotes'
  BY <1>1 DEF ResolutionIInv, OutcomeFollowsVotes, RightlyClosed, Majority
<1> QED
  BY <1>3, <1>4, <1>5, <1>6 DEF ResolutionIInv

LEMMA DraftStep ==
    ASSUME ResolutionIInv, NEW r \in Resolutions, NEW type \in Type,
           NEW rule \in {"Simple", "Special"},
           NEW recused \in SUBSET Directors, Draft(r, type, rule, recused)
    PROVE  ResolutionIInv'
<1> DEFINE doc == [Undrafted EXCEPT !.type = type, !.rule = rule,
                      !.status = "Draft",
                      !.rows = [d \in Directors |->
                                  [NoRow EXCEPT !.recused = d \in recused]]]
<1>1. doc \in Resolution /\ doc.status = "Draft" /\ doc.type = type
          /\ doc.rule = rule
  <2> DEFINE rows == [d \in Directors |->
                        [NoRow EXCEPT !.recused = d \in recused]]
  <2>1. ASSUME NEW b \in BOOLEAN
        PROVE  [NoRow EXCEPT !.recused = b] \in Row
    BY DEF NoRow, Row
  <2>2. \A d \in Directors : (d \in recused) \in BOOLEAN
    OBVIOUS
  <2>3. rows \in [Directors -> Row]
    BY <2>1, <2>2
  <2>5. doc = [Undrafted EXCEPT !.type = type, !.rule = rule,
                                !.status = "Draft", !.rows = rows]
    OBVIOUS
  <2>4. Undrafted \in Resolution
    <3>1. NoRow \in Row
      BY DEF NoRow, Row
    <3>2. NoPoll \in PollFigures
      BY DEF NoPoll, PollFigures
    <3> QED
      BY <3>1, <3>2 DEF Undrafted, Resolution, Type
  <2> HIDE DEF doc, rows
  <2> QED
    BY <2>3, <2>4, <2>5 DEF Resolution
<1>2. /\ resolutions' = [resolutions EXCEPT ![r] = doc]
      /\ voting' = voting /\ overtaken' = overtaken
      /\ misrouted' = misrouted
  BY DEF Draft, boardHistory
<1> HIDE DEF doc
<1>3. ResolutionTypeOK'
  BY <1>1, <1>2 DEF ResolutionIInv, ResolutionTypeOK, Draft, Request
<1>4. /\ resolutions'[r] = doc
      /\ \A s \in Resolutions \ {r} : resolutions'[s] = resolutions[s]
  BY <1>2 DEF ResolutionIInv, ResolutionTypeOK
<1>5. ASSUME NEW h \in Handlers
      PROVE  JobOK(h)'
  <2>1. CASE voting[h] = Unseated
    BY <1>2, <2>1 DEF JobOK
  <2>2. CASE voting[h] # Unseated
    <3>1. voting[h].r \in Resolutions
      BY <2>2, JobTyped DEF ResolutionIInv, VotingJob
    <3>2. resolutions[voting[h].r].status # "absent"
      BY <2>2 DEF ResolutionIInv, JobOK, JobFits
    <3>3. resolutions'[voting[h].r] = resolutions[voting[h].r]
      BY <1>4, <3>1, <3>2 DEF Draft
    <3> QED
      BY <1>2, <2>2, <3>3 DEF ResolutionIInv, JobOK
  <2> QED
    BY <2>1, <2>2
<1>6. ASSUME NEW s \in Resolutions
      PROVE  RuleOK(s)'
  BY <1>1, <1>4 DEF ResolutionIInv, RuleOK, Draft
<1>7. OutcomeFollowsVotes'
  <2> SUFFICES ASSUME NEW s \in Resolutions \ (overtaken \union misrouted),
                      resolutions'[s].status = "Closed"
               PROVE  RightlyClosed(resolutions'[s])
    BY <1>2 DEF OutcomeFollowsVotes, RightlyClosed, Majority
  <2>1. resolutions'[s] = resolutions[s]
    BY <1>1, <1>4
  <2> QED
    BY <2>1 DEF ResolutionIInv, OutcomeFollowsVotes
<1> QED
  BY <1>3, <1>5, <1>6, <1>7 DEF ResolutionIInv

LEMMA ReadFacts ==
    ASSUME ResolutionIInv, NEW h \in Handlers, NEW r \in Resolutions, NEW op,
           NEW d,
           NEW new, Reads(h, op, r, d, new)
    PROVE  /\ resolutions[r] \in Resolution
           /\ resolutions[r].status \in {"Draft", "Voting open", "Circulating"}
           /\ resolutions[r].rows \in [Directors -> Row]
           /\ resolutions[r].version <= resolutions[r].version
<1>1. resolutions[r] \in Resolution
  BY DocTyped DEF ResolutionIInv
<1>2. resolutions[r].version \in Nat
  BY <1>1 DEF Resolution
<1>3. resolutions[r].version <= resolutions[r].version
  BY <1>2
<1> QED
  BY <1>1, <1>3 DEF Reads, OpenToChange, Resolution

\* What the operations on a row have in common.
LEMMA RowStep ==
    ASSUME ResolutionIInv, NEW h \in Handlers, NEW r \in Resolutions,
           NEW d \in Directors, NEW row \in Row,
           NEW status \in {"Draft", "Voting open", "Circulating"},
           Reads(h, "row", r, d,
                 [resolutions[r] EXCEPT
                     !.rows = [resolutions[r].rows EXCEPT ![d] = row],
                     !.status = status])
    PROVE  ResolutionIInv'
<1> DEFINE doc == resolutions[r]
           rows == [doc.rows EXCEPT ![d] = row]
           new == [doc EXCEPT !.rows = rows, !.status = status]
           j == [op |-> "row", r |-> r, d |-> d, read |-> doc, new |-> new]
<1>1. doc \in Resolution /\ doc.rows \in [Directors -> Row]
  BY DocTyped DEF ResolutionIInv, Resolution
<1>2. /\ rows \in [Directors -> Row]
      /\ \A e \in Directors \ {d} : rows[e] = doc.rows[e]
  BY <1>1
<1> HIDE DEF rows
<1>3. new \in Resolution /\ new.rows = rows /\ new.status = status
  BY <1>1, <1>2 DEF Resolution
<1>4. doc.status \notin {"absent", "Closed"} /\ doc.version <= doc.version
  BY ReadFacts
<1>5. JobFits(j, doc)
  <2>1. j.op = "row" /\ j.d = d /\ j.read = doc /\ j.new = new
    OBVIOUS
  <2> HIDE DEF new, doc, j
  <2>2. j.op \notin Type
    BY <2>1 DEF Type
  <2>3. /\ doc.status # "absent"
        /\ j.read.status \notin {"absent", "Closed"}
        /\ j.new.status \notin {"absent", "Closed"}
    BY <1>3, <1>4, <2>1
  <2>4. \A e \in Directors \ {j.d} : j.new.rows[e] = j.read.rows[e]
    BY <1>2, <1>3, <2>1
  <2> QED
    BY <1>4, <2>1, <2>2, <2>3, <2>4 DEF JobFits
<1>6. Reads(h, "row", r, d, new)
  BY DEF rows
<1> HIDE DEF new
<1> QED
  BY <1>3, <1>5, <1>6, ReadsStep

LEMMA OpenedOK ==
    ASSUME NEW doc \in Resolution, doc.status \notin {"absent", "Closed"},
           NEW status \in {"Voting open", "Circulating"}
    PROVE  /\ Opened(doc, status) \in {"Draft", "Voting open", "Circulating"}
           /\ doc.status \in {"Draft", "Voting open", "Circulating"}
BY DEF Opened, Resolution

LEMMA VoteStep ==
    ASSUME ResolutionIInv, NEW h \in Handlers, NEW r \in Resolutions,
           NEW d \in Directors, NEW ballot \in Ballot, Vote(h, r, d, ballot)
    PROVE  ResolutionIInv'
<1> DEFINE doc == resolutions[r]
           row == [doc.rows[d] EXCEPT !.vote = ballot]
<1>1. /\ doc \in Resolution /\ doc.rows \in [Directors -> Row]
      /\ doc.status \notin {"absent", "Closed"}
  BY ReadFacts DEF Vote
<1>2. row \in Row
  BY <1>1 DEF Row
<1>3. [doc.rows EXCEPT ![d].vote = ballot] = [doc.rows EXCEPT ![d] = row]
  BY <1>1
<1>4. Opened(doc, "Voting open") \in {"Draft", "Voting open", "Circulating"}
  BY <1>1, OpenedOK
<1>5. Reads(h, "row", r, d,
            [doc EXCEPT !.rows = [doc.rows EXCEPT ![d] = row],
                        !.status = Opened(doc, "Voting open")])
  BY <1>3 DEF Vote
<1> HIDE DEF row
<1> QED
  BY <1>2, <1>4, <1>5, RowStep

LEMMA CirculateStep ==
    ASSUME ResolutionIInv, NEW h \in Handlers, NEW r \in Resolutions,
           NEW d \in Directors, Circulate(h, r, d)
    PROVE  ResolutionIInv'
<1> DEFINE doc == resolutions[r]
           row == [doc.rows[d] EXCEPT !.status = "Sent"]
<1>1. /\ doc \in Resolution /\ doc.rows \in [Directors -> Row]
      /\ doc.status \notin {"absent", "Closed"}
  BY ReadFacts DEF Circulate
<1>2. row \in Row
  BY <1>1 DEF Row
<1>3. [doc.rows EXCEPT ![d].status = "Sent"] = [doc.rows EXCEPT ![d] = row]
  BY <1>1
<1>4. Opened(doc, "Circulating") \in {"Draft", "Voting open", "Circulating"}
  BY <1>1, OpenedOK
<1>5. Reads(h, "row", r, d,
            [doc EXCEPT !.rows = [doc.rows EXCEPT ![d] = row],
                        !.status = Opened(doc, "Circulating")])
  BY <1>3 DEF Circulate
<1> HIDE DEF row
<1> QED
  BY <1>2, <1>4, <1>5, RowStep

LEMMA RespondStep ==
    ASSUME ResolutionIInv, NEW h \in Handlers, NEW r \in Resolutions,
           NEW d \in Directors, NEW ballot \in Ballot,
           Respond(h, r, d, ballot)
    PROVE  ResolutionIInv'
<1> DEFINE doc == resolutions[r]
           row == [doc.rows[d] EXCEPT !.vote = ballot,
                                      !.status = "Responded"]
<1>1. /\ doc \in Resolution /\ doc.rows \in [Directors -> Row]
      /\ doc.status \in {"Draft", "Voting open", "Circulating"}
  BY ReadFacts DEF Respond
<1>2. row \in Row
  BY <1>1 DEF Row
<1>3. [doc.rows EXCEPT ![d].vote = ballot, ![d].status = "Responded"]
          = [doc.rows EXCEPT ![d] = row]
  BY <1>1 DEF Row
<1>4. [doc EXCEPT !.rows = [doc.rows EXCEPT ![d] = row]]
          = [doc EXCEPT !.rows = [doc.rows EXCEPT ![d] = row],
                        !.status = doc.status]
  BY <1>1 DEF Resolution
<1>5. Reads(h, "row", r, d,
            [doc EXCEPT !.rows = [doc.rows EXCEPT ![d] = row],
                        !.status = doc.status])
  BY <1>3, <1>4 DEF Respond
<1> HIDE DEF row
<1> QED
  BY <1>1, <1>2, <1>5, RowStep

LEMMA AddProxyStep ==
    ASSUME ResolutionIInv, NEW h \in Handlers, NEW r \in Resolutions,
           AddProxy(h, r)
    PROVE  ResolutionIInv'
<1> DEFINE doc == resolutions[r]
<1>1. Reads(h, "proxy", r, NoDirector, doc)
  BY DEF AddProxy
<1>2. doc \in Resolution /\ doc.status \notin {"absent", "Closed"}
          /\ doc.version <= doc.version
  BY <1>1, ReadFacts
<1>3. JobFits([op |-> "proxy", r |-> r, d |-> NoDirector, read |-> doc,
               new |-> doc], doc)
  BY <1>2 DEF JobFits, Type
<1> QED
  BY <1>1, <1>2, <1>3, ReadsStep

LEMMA EnterPollStep ==
    ASSUME ResolutionIInv, NEW h \in Handlers, NEW r \in Resolutions,
           NEW poll \in Polls,
           EnterPoll(h, r, poll)
    PROVE  ResolutionIInv'
<1> DEFINE doc == resolutions[r]
           status == Opened(doc, "Voting open")
           new == [doc EXCEPT !.poll = poll, !.status = status]
<1>1. Reads(h, "poll", r, NoDirector, new)
  BY DEF EnterPoll
<1>2. /\ doc \in Resolution /\ doc.status \notin {"absent", "Closed"}
      /\ doc.version <= doc.version
      /\ status \in {"Draft", "Voting open", "Circulating"}
  BY <1>1, ReadFacts, OpenedOK
<1>3. new \in Resolution /\ new.rows = doc.rows /\ new.status = status
  BY <1>2, ResolutionsAssumption DEF Resolution
<1> HIDE DEF new
<1> DEFINE j == [op |-> "poll", r |-> r, d |-> NoDirector, read |-> doc,
                 new |-> new]
<1>4. JobFits(j, doc)
  <2>1. j.op = "poll" /\ j.read = doc /\ j.new = new
    OBVIOUS
  <2> HIDE DEF doc, j
  <2>2. j.op \notin Type
    BY <2>1 DEF Type
  <2>3. /\ doc.status \notin {"absent", "Closed"}
        /\ j.new.status \notin {"absent", "Closed"}
    BY <1>2, <1>3, <2>1
  <2> QED
    BY <1>2, <2>1, <2>2, <2>3 DEF JobFits
<1> QED
  BY <1>1, <1>3, <1>4, ReadsStep

LEMMA CloseStep ==
    ASSUME ResolutionIInv, NEW h \in Handlers, NEW r \in Resolutions,
           NEW type \in Type,
           Close(h, r, type)
    PROVE  ResolutionIInv'
<1> DEFINE doc == resolutions[r]
           new == [doc EXCEPT !.outcome = Verdict(doc, type),
                              !.status = "Closed"]
<1>1. Reads(h, type, r, NoDirector, new) /\ Closable(doc, type)
  BY DEF Close
<1>2. /\ doc \in Resolution /\ doc.status \notin {"absent", "Closed"}
      /\ doc.version <= doc.version
  BY <1>1, ReadFacts
<1>3. new \in Resolution /\ new.status = "Closed"
  BY <1>2 DEF Resolution, Verdict
<1> DEFINE j == [op |-> type, r |-> r, d |-> NoDirector, read |-> doc,
                 new |-> new]
<1>4. JobFits(j, doc)
  <2>1. j.op = type /\ j.read = doc /\ j.new = new
    OBVIOUS
  <2>2. j.new = [j.read EXCEPT !.outcome = Verdict(j.read, j.op),
                               !.status = "Closed"]
    BY <2>1
  <2> HIDE DEF doc, new, j
  <2> QED
    BY <1>1, <1>2, <1>3, <2>1, <2>2 DEF JobFits, Type
<1> QED
  BY <1>1, <1>3, <1>4, ReadsStep

-----------------------------------------------------------------------------
(* The save *)

LEMMA MergedPoll ==
    ASSUME NEW read \in PollFigures, NEW new \in PollFigures,
           NEW now \in PollFigures
    PROVE  [f \in DOMAIN now |-> Merged(read[f], new[f], now[f])]
               \in PollFigures
<1> DEFINE poll == [f \in DOMAIN now |-> Merged(read[f], new[f], now[f])]
<1>1. DOMAIN now = {"for", "against", "abstain", "present"}
  BY DEF PollFigures
<1>2. \A f \in DOMAIN now :
          read[f] \in Nat /\ new[f] \in Nat /\ now[f] \in Nat
  BY <1>1 DEF PollFigures
<1>3. poll \in [{"for", "against", "abstain", "present"} -> Nat]
  BY <1>1, <1>2 DEF Merged
<1> HIDE DEF poll
<1>4. poll = [for |-> poll["for"], against |-> poll["against"],
              abstain |-> poll["abstain"], present |-> poll["present"]]
  BY <1>3
<1>5. /\ poll["for"] \in Nat /\ poll["against"] \in Nat
      /\ poll["abstain"] \in Nat /\ poll["present"] \in Nat
  BY <1>3
<1>6. poll \in PollFigures
  BY <1>4, <1>5 DEF PollFigures
<1> QED
  BY <1>6 DEF poll

\* What the save makes of the document.
LEMMA WrittenOK ==
    ASSUME NEW job \in VotingJob, NEW doc \in Resolution,
           JobFits(job, doc)
    PROVE  LET w == Written(job, doc) IN
           /\ w \in Resolution
           /\ w.type = doc.type /\ w.rule = doc.rule
           /\ w.status = Merged(job.read.status, job.new.status, doc.status)
           /\ w.status # "absent"
           /\ w.outcome =
                  Merged(job.read.outcome, job.new.outcome, doc.outcome)
           /\ w.rows = IF job.op = "row" THEN job.new.rows ELSE doc.rows
           /\ w.poll = [f \in DOMAIN doc.poll |->
                  Merged(job.read.poll[f], job.new.poll[f], doc.poll[f])]
           /\ w.version = IF job.op \in Bumps THEN doc.version + 1
                          ELSE doc.version
<1> DEFINE w == Written(job, doc)
           status == Merged(job.read.status, job.new.status, doc.status)
           outcome == Merged(job.read.outcome, job.new.outcome, doc.outcome)
           rows == IF job.op = "row" THEN job.new.rows ELSE doc.rows
           poll == [f \in DOMAIN doc.poll |->
                      Merged(job.read.poll[f], job.new.poll[f], doc.poll[f])]
           version == IF job.op \in Bumps THEN doc.version + 1
                      ELSE doc.version
<1>1. job.read \in Resolution /\ job.new \in Resolution
  BY DEF VotingJob
<1>2. /\ status \in {"absent", "Draft", "Voting open", "Circulating",
                     "Closed"}
      /\ status # "absent"
  BY <1>1 DEF Merged, Resolution, JobFits
<1>3. outcome \in {"none", "Passed", "Failed"}
  BY <1>1 DEF Merged, Resolution
<1>4. rows \in [Directors -> Row]
  BY <1>1 DEF Resolution
<1>5. poll \in PollFigures
  BY <1>1, MergedPoll DEF Resolution
<1>6. version \in Nat
  <2>1. doc.version \in Nat
    BY DEF Resolution
  <2> QED
    BY <2>1
<1>7. w = [doc EXCEPT !.status = status, !.outcome = outcome, !.rows = rows,
                      !.poll = poll, !.version = version]
  BY DEF Written
<1> HIDE DEF w, status, outcome, rows, poll, version
<1>8. /\ w \in Resolution
      /\ w.type = doc.type /\ w.rule = doc.rule /\ w.status = status
      /\ w.outcome = outcome /\ w.rows = rows /\ w.poll = poll
      /\ w.version = version
  BY <1>2, <1>3, <1>4, <1>5, <1>6, <1>7 DEF Resolution
<1> QED
  BY <1>2, <1>8 DEF w, status, outcome, rows, poll, version

\* A request that goes on fits what another one has just saved.
LEMMA StillFits ==
    ASSUME NEW job \in VotingJob, NEW k \in VotingJob, NEW doc \in Resolution,
           JobFits(job, doc), JobFits(k, doc)
    PROVE  JobFits(k, Written(job, doc))
<1> DEFINE w == Written(job, doc)
<1>1. /\ w.type = doc.type /\ w.rule = doc.rule /\ w.status # "absent"
      /\ w.rows = IF job.op = "row" THEN job.new.rows ELSE doc.rows
      /\ w.version = IF job.op \in Bumps THEN doc.version + 1
                     ELSE doc.version
  BY WrittenOK
<1>2. doc.version \in Nat /\ k.read.version \in Nat
  <2>1. k.read \in Resolution
    BY DEF VotingJob
  <2> QED
    BY <2>1 DEF Resolution
<1> HIDE DEF w
<1>3. k.read.version <= doc.version
  BY DEF JobFits
<1>4. CASE job.op \in Bumps
  <2>1. w.version = doc.version + 1
    BY <1>1, <1>4
  <2>2. k.read.version <= w.version /\ k.read.version # w.version
    BY <1>2, <1>3, <2>1
  <2> QED
    BY <1>1, <2>2 DEF JobFits, w
<1>5. CASE job.op \notin Bumps
  <2>1. w.version = doc.version /\ w.rows = doc.rows
    BY <1>1, <1>5 DEF Bumps
  <2> QED
    BY <1>1, <2>1 DEF JobFits, w
<1> QED
  BY <1>4, <1>5

\* If it would write the rows of a written resolution that is closed now,
\* it has lost its right to do so.
LEMMA StillLate ==
    ASSUME NEW job \in VotingJob, NEW k \in VotingJob, NEW doc \in Resolution,
           JobFits(job, doc), JobFits(k, doc), Late(k, doc),
           job.op \notin Type \ {doc.type}
    PROVE  Late(k, Written(job, doc))
<1> DEFINE w == Written(job, doc)
<1>1. /\ w.type = doc.type
      /\ w.status = Merged(job.read.status, job.new.status, doc.status)
      /\ w.version = IF job.op \in Bumps THEN doc.version + 1
                     ELSE doc.version
  BY WrittenOK
<1>2. doc.version \in Nat /\ k.read.version \in Nat
  <2>1. k.read \in Resolution
    BY DEF VotingJob
  <2> QED
    BY <2>1 DEF Resolution
<1>3. k.read.version <= doc.version
  BY DEF JobFits
<1> HIDE DEF w
<1> SUFFICES ASSUME w.type = "Written", w.status = "Closed", k.op = "row"
             PROVE  k.read.version < w.version
  BY DEF Late, w
<1>4. CASE doc.status = "Closed"
  <2>1. k.read.version < doc.version
    BY <1>1, <1>4 DEF Late
  <2>2. w.version = doc.version \/ w.version = doc.version + 1
    BY <1>1
  <2> QED
    BY <1>2, <2>1, <2>2
<1>5. CASE doc.status # "Closed"
  <2>1. job.new.status = "Closed"
    BY <1>1, <1>5 DEF Merged
  <2>2. job.op = "Written"
    BY <1>1, <2>1 DEF JobFits
  <2>3. w.version = doc.version + 1
    BY <1>1, <2>2 DEF Bumps
  <2> QED
    BY <1>2, <1>3, <2>3
<1> QED
  BY <1>4, <1>5

\* Closing what is as it was read.
LEMMA ClosedRightly ==
    ASSUME NEW job \in VotingJob, NEW doc \in Resolution, JobFits(job, doc),
           doc.type # "Shareholder" => doc.rule = "Simple",
           job.read = doc, job.op \notin Type \ {doc.type},
           Written(job, doc).status = "Closed"
    PROVE  RightlyClosed(Written(job, doc))
<1> DEFINE w == Written(job, doc)
           new == [doc EXCEPT !.outcome = Verdict(doc, doc.type),
                              !.status = "Closed"]
<1>1. /\ w.type = doc.type /\ w.rule = doc.rule
      /\ w.status = Merged(job.read.status, job.new.status, doc.status)
      /\ w.outcome = Merged(job.read.outcome, job.new.outcome, doc.outcome)
      /\ w.rows = IF job.op = "row" THEN job.new.rows ELSE doc.rows
      /\ w.poll = [f \in DOMAIN doc.poll |->
              Merged(job.read.poll[f], job.new.poll[f], doc.poll[f])]
  BY WrittenOK
<1>2. job.new.status = "Closed"
  BY <1>1 DEF Merged, JobFits
<1>3. job.op = doc.type /\ job.op \in Type
  BY <1>2 DEF JobFits
<1>4. job.new = new /\ Closable(doc, doc.type)
  BY <1>3 DEF JobFits
<1>5. job.op # "row"
  BY <1>3 DEF Type
<1>6. /\ new.type = doc.type /\ new.rule = doc.rule /\ new.rows = doc.rows
      /\ new.poll = doc.poll /\ new.outcome = Verdict(doc, doc.type)
      /\ doc.poll \in PollFigures
  BY DEF Resolution
<1>7. RightlyClosed(new)
  BY <1>4, VerdictOK
<1> HIDE DEF w, new
<1>8. w.poll = doc.poll
  <2>1. w.poll = [f \in DOMAIN doc.poll |-> doc.poll[f]]
    BY <1>1, <1>4, <1>6 DEF Merged
  <2> QED
    BY <1>6, <2>1 DEF PollFigures
<1>9. w.rows = doc.rows /\ w.outcome = new.outcome
  BY <1>1, <1>4, <1>5 DEF Merged
<1>10. RightlyClosed(w)
  <2>1. /\ w.type = new.type /\ w.rule = new.rule /\ w.rows = new.rows
        /\ w.poll = new.poll /\ w.outcome = new.outcome
    BY <1>1, <1>6, <1>8, <1>9
  <2>2. Majority(w) = Majority(new)
    BY <2>1, Zenon DEF Majority
  <2> QED
    BY <1>7, <2>1, <2>2, Zenon DEF RightlyClosed
<1> QED
  BY <1>10 DEF w

LEMMA SaveStep ==
    ASSUME ResolutionIInv, NEW h \in Handlers, SaveResolution(h)
    PROVE  ResolutionIInv'
<1> DEFINE job == voting[h]
           r == job.r
           doc == resolutions[r]
           w == Written(job, doc)
<1>1. /\ job # Unseated /\ job \in VotingJob /\ JobFits(job, doc)
      /\ r \in Resolutions /\ doc \in Resolution
  <2>1. job # Unseated
    BY DEF SaveResolution
  <2>2. job \in VotingJob
    BY <2>1, JobTyped DEF ResolutionIInv
  <2>3. r \in Resolutions
    BY <2>2 DEF VotingJob
  <2> QED
    BY <2>1, <2>2, <2>3, DocTyped DEF ResolutionIInv, JobOK
<1>2. /\ resolutions' = [resolutions EXCEPT ![r] = w]
      /\ overtaken' = IF doc = job.read THEN overtaken
                      ELSE overtaken \union {r}
      /\ misrouted' = IF job.op \in Type \ {doc.type}
                      THEN misrouted \union {r} ELSE misrouted
      /\ voting' = [voting EXCEPT ![h] = Unseated]
      /\ requests' = requests /\ faults' = faults
  BY DEF SaveResolution, Step
<1>3. w \in Resolution /\ w.type = doc.type /\ w.rule = doc.rule
  BY <1>1, WrittenOK
<1> HIDE DEF w
<1>4. /\ resolutions'[r] = w
      /\ \A s \in Resolutions \ {r} : resolutions'[s] = resolutions[s]
  BY <1>1, <1>2 DEF ResolutionIInv, ResolutionTypeOK
<1>5. ResolutionTypeOK'
  <2>1. resolutions' \in [Resolutions -> Resolution]
    BY <1>2, <1>3 DEF ResolutionIInv, ResolutionTypeOK
  <2>2. voting' \in [Handlers -> VotingJob \union {Unseated}]
    BY <1>2 DEF ResolutionIInv, ResolutionTypeOK
  <2>3. {overtaken', misrouted'} \subseteq SUBSET Resolutions
    BY <1>1, <1>2 DEF ResolutionIInv, ResolutionTypeOK
  <2>4. {requests', faults'} \subseteq Nat
    BY <1>2 DEF ResolutionIInv, ResolutionTypeOK
  <2> QED
    BY <2>1, <2>2, <2>3, <2>4 DEF ResolutionTypeOK
<1>6. ASSUME NEW g \in Handlers
      PROVE  JobOK(g)'
  <2> DEFINE k == voting[g]
  <2>1. CASE g = h
    BY <1>2, <2>1 DEF ResolutionIInv, ResolutionTypeOK, JobOK
  <2>2. CASE k = Unseated /\ g # h
    BY <1>2, <2>2 DEF ResolutionIInv, ResolutionTypeOK, JobOK
  <2>3. CASE k # Unseated /\ g # h
    <3>1. /\ voting'[g] = k /\ k \in VotingJob /\ k.r \in Resolutions
          /\ JobFits(k, resolutions[k.r])
          /\ k.r \notin misrouted => Late(k, resolutions[k.r])
      <4>1. voting'[g] = k
        BY <1>2, <2>3 DEF ResolutionIInv, ResolutionTypeOK
      <4>2. k \in VotingJob
        BY <2>3, JobTyped DEF ResolutionIInv
      <4> QED
        BY <2>3, <4>1, <4>2 DEF ResolutionIInv, JobOK, VotingJob
    <3>2. /\ JobFits(k, resolutions'[k.r])
          /\ k.r \notin misrouted' => Late(k, resolutions'[k.r])
      <4>1. CASE k.r = r
        <5>1. JobFits(k, w)
          BY <1>1, <3>1, <4>1, StillFits DEF w
        <5>2. ASSUME k.r \notin misrouted'
              PROVE  Late(k, w)
          <6>1. k.r \notin misrouted /\ job.op \notin Type \ {doc.type}
            BY <1>2, <4>1, <5>2
          <6> QED
            BY <1>1, <3>1, <4>1, <6>1, StillLate DEF w
        <5> QED
          BY <1>4, <4>1, <5>1, <5>2
      <4>2. CASE k.r # r
        <5>1. resolutions'[k.r] = resolutions[k.r]
          BY <1>4, <3>1, <4>2
        <5>2. misrouted \subseteq misrouted'
          BY <1>2
        <5> QED
          BY <3>1, <5>1, <5>2
      <4> QED
        BY <4>1, <4>2
    <3> HIDE DEF k
    <3> QED
      BY <3>1, <3>2 DEF JobOK
  <2> QED
    BY <2>1, <2>2, <2>3
<1>7. ASSUME NEW s \in Resolutions
      PROVE  RuleOK(s)'
  BY <1>1, <1>3, <1>4 DEF ResolutionIInv, RuleOK
<1>8. OutcomeFollowsVotes'
  <2> SUFFICES ASSUME NEW s \in Resolutions,
                      s \notin overtaken', s \notin misrouted',
                      resolutions'[s].status = "Closed"
               PROVE  RightlyClosed(resolutions'[s])
    BY DEF OutcomeFollowsVotes, RightlyClosed, Majority
  <2>1. CASE s = r
    <3>1. doc = job.read /\ job.op \notin Type \ {doc.type}
      BY <1>2, <2>1
    <3>2. doc.type # "Shareholder" => doc.rule = "Simple"
      BY <1>1 DEF ResolutionIInv, RuleOK
    <3>3. RightlyClosed(w)
      BY <1>1, <1>4, <2>1, <3>1, <3>2, ClosedRightly DEF w
    <3> QED
      BY <1>4, <2>1, <3>3
  <2>2. CASE s # r
    <3>1. s \notin overtaken /\ s \notin misrouted
      BY <1>2
    <3>2. resolutions'[s] = resolutions[s]
      BY <1>4, <2>2
    <3> QED
      BY <3>1, <3>2 DEF ResolutionIInv, OutcomeFollowsVotes
  <2> QED
    BY <2>1, <2>2
<1> QED
  BY <1>5, <1>6, <1>7, <1>8 DEF ResolutionIInv

\* A save that is refused, or that fails, leaves everything else alone.
LEMMA IdleStep ==
    ASSUME ResolutionIInv, NEW h \in Handlers, RefuseSave(h) \/ VotingFault(h)
    PROVE  ResolutionIInv'
<1>1. /\ voting' = [voting EXCEPT ![h] = Unseated]
      /\ resolutions' = resolutions /\ overtaken' = overtaken
      /\ misrouted' = misrouted
      /\ {requests', faults'} \subseteq Nat
  <2>1. {requests, faults} \subseteq Nat
    BY DEF ResolutionIInv, ResolutionTypeOK
  <2> QED
    BY <2>1 DEF RefuseSave, VotingFault, Step, Fault, boardHistory
<1>2. ResolutionTypeOK'
  <2>1. voting' \in [Handlers -> VotingJob \union {Unseated}]
    BY <1>1 DEF ResolutionIInv, ResolutionTypeOK
  <2> QED
    BY <1>1, <2>1 DEF ResolutionIInv, ResolutionTypeOK
<1>3. ASSUME NEW g \in Handlers
      PROVE  JobOK(g)'
  <2>1. voting'[g] = voting[g] \/ voting'[g] = Unseated
    BY <1>1 DEF ResolutionIInv, ResolutionTypeOK
  <2> QED
    BY <1>1, <2>1 DEF ResolutionIInv, JobOK
<1>4. ASSUME NEW s \in Resolutions
      PROVE  RuleOK(s)'
  BY <1>1 DEF ResolutionIInv, RuleOK
<1>5. OutcomeFollowsVotes'
  BY <1>1 DEF ResolutionIInv, OutcomeFollowsVotes, RightlyClosed, Majority
<1> QED
  BY <1>2, <1>3, <1>4, <1>5 DEF ResolutionIInv

-----------------------------------------------------------------------------
(* The invariant *)

LEMMA InitOK ==
    ASSUME ResolutionInit
    PROVE  ResolutionIInv
<1>1. Undrafted \in Resolution /\ Undrafted.status = "absent"
          /\ Undrafted.type = "Board"
  <2>1. NoRow \in Row
    BY DEF NoRow, Row
  <2>2. NoPoll \in PollFigures
    BY DEF NoPoll, PollFigures
  <2> QED
    BY <2>1, <2>2 DEF Undrafted, Resolution, Type
<1>2. ResolutionTypeOK
  BY <1>1 DEF ResolutionInit, ResolutionTypeOK
<1>3. \A h \in Handlers : JobOK(h)
  BY DEF ResolutionInit, JobOK
<1>4. \A r \in Resolutions : RuleOK(r)
  BY DEF ResolutionInit, RuleOK, Undrafted
<1>5. OutcomeFollowsVotes
  BY <1>1 DEF ResolutionInit, OutcomeFollowsVotes
<1> QED
  BY <1>2, <1>3, <1>4, <1>5 DEF ResolutionIInv

LEMMA NextOK ==
    ASSUME ResolutionIInv, [ResolutionNext]_boardVars
    PROVE  ResolutionIInv'
<1>1. CASE ResolutionNext
  <2>1. ASSUME NEW r \in Resolutions, NEW type \in Type,
               NEW rule \in {"Simple", "Special"},
               NEW recused \in SUBSET Directors, Draft(r, type, rule, recused)
        PROVE  ResolutionIInv'
    BY <2>1, DraftStep
  <2>2. ASSUME NEW h \in Handlers, NEW r \in Resolutions,
               NEW d \in Directors, NEW ballot \in Ballot,
               Vote(h, r, d, ballot) \/ Respond(h, r, d, ballot)
        PROVE  ResolutionIInv'
    BY <2>2, VoteStep, RespondStep
  <2>3. ASSUME NEW h \in Handlers, NEW r \in Resolutions,
               NEW d \in Directors, Circulate(h, r, d)
        PROVE  ResolutionIInv'
    BY <2>3, CirculateStep
  <2>4. ASSUME NEW h \in Handlers, NEW r \in Resolutions,
               \/ AddProxy(h, r)
               \/ \E poll \in Polls : EnterPoll(h, r, poll)
               \/ \E type \in Type : Close(h, r, type)
        PROVE  ResolutionIInv'
    BY <2>4, AddProxyStep, EnterPollStep, CloseStep
  <2>5. ASSUME NEW h \in Handlers,
               SaveResolution(h) \/ RefuseSave(h) \/ VotingFault(h)
        PROVE  ResolutionIInv'
    BY <2>5, SaveStep, IdleStep
  <2> QED
    BY <1>1, <2>1, <2>2, <2>3, <2>4, <2>5 DEF ResolutionNext
<1>2. CASE UNCHANGED boardVars
  BY <1>2
     DEF boardVars, boardHistory, ResolutionIInv, ResolutionTypeOK, JobOK,
         RuleOK, OutcomeFollowsVotes, RightlyClosed, Majority
<1> QED
  BY <1>1, <1>2

LEMMA ResolutionInvariance == ResolutionSpec => []ResolutionIInv
BY InitOK, NextOK, PTL DEF ResolutionSpec

\* What the actions are about: ResolutionService saves documents that are in
\* the collection, with the fields and the statuses of resolution.schema.ts.
THEOREM ResolutionTypeCorrect == ResolutionSpec => []ResolutionTypeOK
BY ResolutionInvariance, PTL DEF ResolutionIInv

\* computeOutcome over what is on record (resolution.service.ts:71-85), closed
\* on nobody's earlier reading: Passed if and only if a majority is in favour.
THEOREM OutcomesFollowVotes == ResolutionSpec => []OutcomeFollowsVotes
BY ResolutionInvariance, PTL DEF ResolutionIInv

-----------------------------------------------------------------------------
(* Steps that change the votes *)

LEMMA WhoWrites ==
    ASSUME [ResolutionNext]_boardVars
    PROVE  \/ resolutions' = resolutions
           \/ \E r \in Resolutions : \E doc :
                  /\ resolutions[r].status = "absent"
                  /\ resolutions' = [resolutions EXCEPT ![r] = doc]
           \/ \E h \in Handlers : SaveResolution(h)
<1>1. CASE ResolutionNext
  <2>1. ASSUME NEW r \in Resolutions, NEW type \in Type,
               NEW rule \in {"Simple", "Special"},
               NEW recused \in SUBSET Directors, Draft(r, type, rule, recused)
        PROVE  \E s \in Resolutions : \E doc :
                  /\ resolutions[s].status = "absent"
                  /\ resolutions' = [resolutions EXCEPT ![s] = doc]
    BY <2>1 DEF Draft
  <2>2. ASSUME NEW h \in Handlers, NEW r \in Resolutions,
               \/ \E d \in Directors :
                      \/ \E ballot \in Ballot : \/ Vote(h, r, d, ballot)
                                                \/ Respond(h, r, d, ballot)
                      \/ Circulate(h, r, d)
               \/ AddProxy(h, r)
               \/ \E poll \in Polls : EnterPoll(h, r, poll)
               \/ \E type \in Type : Close(h, r, type)
        PROVE  resolutions' = resolutions
    BY <2>2 DEF Vote, Respond, Circulate, AddProxy, EnterPoll, Close, Reads
  <2>3. ASSUME NEW h \in Handlers, RefuseSave(h) \/ VotingFault(h)
        PROVE  resolutions' = resolutions
    BY <2>3 DEF RefuseSave, VotingFault
  <2> QED
    BY <1>1, <2>1, <2>2, <2>3 DEF ResolutionNext
<1>2. CASE UNCHANGED boardVars
  BY <1>2 DEF boardVars
<1> QED
  BY <1>1, <1>2

\* Who saves the votes of a board found them as they are, but for one's own.
LEMMA SavedRows ==
    ASSUME ResolutionIInv, NEW h \in Handlers, SaveResolution(h),
           NEW r \in Resolutions,
           resolutions'[r].rows # resolutions[r].rows
    PROVE  LET job == voting[h]
               doc == resolutions[r]
           IN
           /\ job # Unseated /\ voting'[h] = Unseated
           /\ job.r = r /\ job.op = "row" /\ job.read.version = doc.version
           /\ resolutions'[r].rows = job.new.rows
           /\ \A d \in Directors \ {job.d} : job.new.rows[d] = doc.rows[d]
<1> DEFINE job == voting[h]
           doc == resolutions[job.r]
           w == Written(job, doc)
<1>1. /\ job # Unseated /\ job \in VotingJob /\ JobFits(job, doc)
      /\ job.r \in Resolutions /\ doc \in Resolution
  <2>1. job # Unseated
    BY DEF SaveResolution
  <2>2. job \in VotingJob
    BY <2>1, JobTyped DEF ResolutionIInv
  <2>3. job.r \in Resolutions
    BY <2>2 DEF VotingJob
  <2> QED
    BY <2>1, <2>2, <2>3, DocTyped DEF ResolutionIInv, JobOK
<1>2. /\ resolutions' = [resolutions EXCEPT ![job.r] = w]
      /\ voting'[h] = Unseated
  BY DEF SaveResolution, ResolutionIInv, ResolutionTypeOK
<1>3. w.rows = IF job.op = "row" THEN job.new.rows ELSE doc.rows
  BY <1>1, WrittenOK
<1> HIDE DEF w
<1>4. job.r = r
  BY <1>2 DEF ResolutionIInv, ResolutionTypeOK
<1>5. resolutions'[r] = w
  BY <1>2, <1>4 DEF ResolutionIInv, ResolutionTypeOK
<1>6. job.op = "row" /\ resolutions'[r].rows = job.new.rows
  BY <1>3, <1>4, <1>5
<1>7. job.read.version = doc.version
  BY <1>6 DEF SaveResolution, Fits
<1>8. \A d \in Directors \ {job.d} : job.new.rows[d] = doc.rows[d]
  BY <1>1, <1>6, <1>7 DEF JobFits
<1> QED
  BY <1>1, <1>2, <1>4, <1>6, <1>7, <1>8

LEMMA VoteWriter ==
    ASSUME ResolutionIInv, [ResolutionNext]_boardVars,
           NEW r \in Resolutions, NEW d \in Directors,
           resolutions[r].status # "absent",
           resolutions'[r].rows[d] # resolutions[r].rows[d]
    PROVE  \E h \in Handlers : /\ voting[h] # Unseated
                               /\ voting'[h] = Unseated
                               /\ voting[h].r = r /\ voting[h].d = d
<1>1. ASSUME NEW s \in Resolutions, NEW doc,
             resolutions[s].status = "absent",
             resolutions' = [resolutions EXCEPT ![s] = doc]
      PROVE  FALSE
  BY <1>1 DEF ResolutionIInv, ResolutionTypeOK
<1>2. PICK h \in Handlers : SaveResolution(h)
  BY <1>1, WhoWrites
<1>3. /\ voting[h] # Unseated /\ voting'[h] = Unseated
      /\ voting[h].r = r /\ voting[h].d = d
  BY <1>2, SavedRows
<1> QED
  BY <1>3

\* Each of two directors who vote at once writes the whole array
\* (resolution.service.ts:466), yet neither undoes the vote of the other.
THEOREM VotesStayOwn == ResolutionSpec => VotesAreOwn
<1>1. ResolutionIInv /\ [ResolutionNext]_boardVars =>
          [\A r \in Resolutions, d \in Directors :
              resolutions[r].status # "absent"
                  /\ resolutions'[r].rows[d] # resolutions[r].rows[d] =>
              \E h \in Handlers :
                  /\ voting[h] # Unseated /\ voting'[h] = Unseated
                  /\ voting[h].r = r /\ voting[h].d = d]_boardVars
  BY VoteWriter
<1> QED
  BY <1>1, ResolutionInvariance, PTL DEF ResolutionSpec, VotesAreOwn

LEMMA NoLateResponse ==
    ASSUME ResolutionIInv, [ResolutionNext]_boardVars,
           NEW r \in Resolutions \ misrouted,
           resolutions[r].type = "Written",
           resolutions[r].status = "Closed"
    PROVE  resolutions'[r].rows = resolutions[r].rows
<1>1. ASSUME NEW s \in Resolutions, NEW doc,
             resolutions[s].status = "absent",
             resolutions' = [resolutions EXCEPT ![s] = doc]
      PROVE  resolutions'[r] = resolutions[r]
  BY <1>1 DEF ResolutionIInv, ResolutionTypeOK
<1>2. ASSUME NEW h \in Handlers, SaveResolution(h),
             resolutions'[r].rows # resolutions[r].rows
      PROVE  FALSE
  <2>1. /\ voting[h] # Unseated /\ voting[h].r = r
        /\ voting[h].op = "row"
        /\ voting[h].read.version = resolutions[r].version
    BY <1>2, SavedRows
  <2>2. voting[h].read.version < resolutions[r].version
    BY <2>1 DEF ResolutionIInv, JobOK, Late
  <2>3. resolutions[r].version \in Nat
    BY DocTyped DEF ResolutionIInv, Resolution
  <2> QED
    BY <2>1, <2>2, <2>3
<1> QED
  BY <1>1, <1>2, WhoWrites

\* closeWritten (resolution.service.ts:294-326) outruns the responses that
\* are under way: the note it leaves moves the version on.
THEOREM ResponsesStayPut == ResolutionSpec => ResponsesStand
<1>1. ResolutionIInv /\ [ResolutionNext]_boardVars =>
          [\A r \in Resolutions \ misrouted :
              resolutions[r].type = "Written"
                  /\ resolutions[r].status = "Closed"
                  => resolutions'[r].rows = resolutions[r].rows]_boardVars
  BY NoLateResponse
<1> QED
  BY <1>1, ResolutionInvariance, PTL DEF ResolutionSpec, ResponsesStand

-----------------------------------------------------------------------------
(* The offices side by side *)

(***************************************************************************)
(* What an office's invariant says holds of its own records, whatever the  *)
(* others do: of what they share it only needs that requests and faults    *)
(* are counted.                                                            *)
(***************************************************************************)
LEMMA PayrollRests ==
    ASSUME PayrollIInv, LoansOK, RunsOK, requests' \in Nat, faults' \in Nat,
           UNCHANGED payrollRecords
    PROVE  PayrollIInv' /\ LoansOK' /\ RunsOK'
<1> USE DEF payrollRecords, payrollHistory
<1>1. PayrollTypeOK'
  BY DEF PayrollIInv, PayrollTypeOK
<1>2. Remembers /\ GivenOut
  BY DEF Remembers, GivenOut
<1> QED BY <1>1, <1>2, LoansOnly, QuietLoans, QuietRuns

LEMMA CampaignRests ==
    ASSUME CampaignIInv, requests' \in Nat, faults' \in Nat,
           UNCHANGED campaignRecords
    PROVE  CampaignIInv'
<1>1. CampaignTypeOK'
  BY DEF CampaignIInv, CampaignTypeOK, campaignRecords, campaignHistory
<1> QED BY <1>1, ListsSafe DEF campaignRecords

LEMMA BoardRests ==
    ASSUME ResolutionIInv, requests' \in Nat, faults' \in Nat,
           UNCHANGED boardRecords
    PROVE  ResolutionIInv'
BY DEF boardRecords, boardHistory, ResolutionIInv, ResolutionTypeOK, JobOK,
       RuleOK, OutcomeFollowsVotes, RightlyClosed, Majority

OfficesIInv ==
    /\ PayrollIInv /\ LoansOK /\ RunsOK
    /\ LeaveIInv /\ DaysOK
    /\ CampaignIInv
    /\ ResolutionIInv

LEMMA OfficesInitSafe == OfficesInit => OfficesIInv
BY PayrollInitSafe, LoansInit, LeaveInitSafe, DaysInit, CampaignInitSafe,
   InitOK DEF OfficesInit, OfficesIInv

LEMMA OfficesStepSafe == OfficesIInv /\ [OfficesNext]_officesVars
        => OfficesIInv'
<1> SUFFICES ASSUME OfficesIInv, [OfficesNext]_officesVars PROVE OfficesIInv'
  OBVIOUS
<1> USE DEF OfficesIInv
<1>1. ASSUME requests' \in Nat, faults' \in Nat
      PROVE  /\ UNCHANGED payrollRecords => PayrollIInv' /\ LoansOK' /\ RunsOK'
             /\ UNCHANGED leaveRecords => LeaveIInv' /\ DaysOK'
             /\ UNCHANGED campaignRecords => CampaignIInv'
             /\ UNCHANGED boardRecords => ResolutionIInv'
  BY <1>1, PayrollRests, LeaveRests, DaysQuiet, CampaignRests, BoardRests
     DEF leaveRecords, leaveHistory
<1>2. CASE PayrollOffice
  <2>1. PayrollIInv' /\ LoansOK' /\ RunsOK'
    BY <1>2, PayrollNextSafe, LoansKept, RunsKept DEF PayrollOffice
  <2>2. requests' \in Nat /\ faults' \in Nat
    BY <2>1 DEF PayrollIInv, PayrollTypeOK
  <2> QED BY <1>1, <1>2, <2>1, <2>2 DEF PayrollOffice
<1>3. CASE LeaveOffice
  <2>1. LeaveIInv' /\ DaysOK'
    BY <1>3, LeaveStepSafe, DaysKept DEF LeaveOffice
  <2>2. requests' \in Nat /\ faults' \in Nat
    BY <2>1 DEF LeaveIInv, LeaveTypeOK
  <2> QED BY <1>1, <1>3, <2>1, <2>2 DEF LeaveOffice
<1>4. CASE CampaignOffice
  <2>1. CampaignIInv'
    BY <1>4, CampaignStepSafe DEF CampaignOffice
  <2>2. requests' \in Nat /\ faults' \in Nat
    BY <2>1 DEF CampaignIInv, CampaignTypeOK
  <2> QED BY <1>1, <1>4, <2>1, <2>2 DEF CampaignOffice
<1>5. CASE Boardroom
  <2>1. ResolutionIInv'
    BY <1>5, NextOK DEF Boardroom
  <2>2. requests' \in Nat /\ faults' \in Nat
    BY <2>1 DEF ResolutionIInv, ResolutionTypeOK
  <2> QED BY <1>1, <1>5, <2>1, <2>2 DEF Boardroom
<1>6. CASE UNCHANGED officesVars
  <2>1. requests' \in Nat /\ faults' \in Nat
    BY <1>6 DEF officesVars, PayrollIInv, PayrollTypeOK
  <2> QED BY <1>1, <1>6, <2>1 DEF officesVars
<1> QED BY <1>2, <1>3, <1>4, <1>5, <1>6 DEF OfficesNext

LEMMA OfficesInvariance == OfficesSpec => []OfficesIInv
BY OfficesInitSafe, OfficesStepSafe, PTL DEF OfficesSpec

\* Side by side on one server, every office keeps what it promises of its
\* records: the payslips and loans, the days of leave, the copies of a
\* campaign, the outcome of a vote.
THEOREM OfficesKeepTheirRecords ==
    OfficesSpec => [](/\ PayslipsDeducted /\ LoanPaidDown /\ OnePayslipEach
                      /\ UsedIsApproved /\ NoDayTwice /\ WithinAllowance
                      /\ MailedOnce /\ DeliveredGotIt
                      /\ OutcomeFollowsVotes)
<1>1. ASSUME OfficesIInv
      PROVE  /\ PayslipsDeducted /\ LoanPaidDown /\ OnePayslipEach
             /\ UsedIsApproved /\ NoDayTwice /\ WithinAllowance
             /\ MailedOnce /\ DeliveredGotIt
             /\ OutcomeFollowsVotes
  <2>1. PayslipsDeducted /\ LoanPaidDown /\ OnePayslipEach
    BY <1>1, PayslipsTakeOff, BalanceFollows DEF OfficesIInv, PayrollIInv
  <2>2. UsedIsApproved /\ NoDayTwice /\ WithinAllowance
    BY <1>1, UsedFollows, AllowanceFollows DEF OfficesIInv, LeaveIInv
  <2>3. MailedOnce /\ DeliveredGotIt
    BY <1>1, CampaignFollows DEF OfficesIInv
  <2>4. OutcomeFollowsVotes
    BY <1>1 DEF OfficesIInv, ResolutionIInv
  <2> QED BY <2>1, <2>2, <2>3, <2>4
<1> QED BY <1>1, OfficesInvariance, PTL

\* And no step of any office rewrites what is settled: a processed run, the
\* recipients of a campaign that was mailed, the votes of others, the
\* responses to a closed resolution.
THEOREM OfficesKeepWhatIsSettled ==
    OfficesSpec => /\ ProcessedStands /\ AudienceStands
                   /\ VotesAreOwn /\ ResponsesStand
<1>1. ASSUME OfficesIInv, [OfficesNext]_officesVars
      PROVE  /\ \/ [PayrollNext]_payrollVars
                \/ UNCHANGED payrollRecords
             /\ \/ [CampaignNext]_campaignVars
                \/ UNCHANGED campaignRecords
             /\ \/ [ResolutionNext]_boardVars
                \/ UNCHANGED boardRecords
  BY <1>1 DEF OfficesNext, PayrollOffice, LeaveOffice, CampaignOffice,
              Boardroom, officesVars
<1>2. OfficesIInv /\ [OfficesNext]_officesVars =>
          [\A r \in Runs :
              runs[r].status \in {"processed", "paid"}
                  /\ r \notin contested' =>
                  /\ runs'[r].status \in {runs[r].status, "paid"}
                  /\ {s \in slips' : s.run = r} = SlipsOf(r)]_payrollVars
  <2> SUFFICES ASSUME OfficesIInv, [OfficesNext]_officesVars, NEW r \in Runs
               PROVE  Stands(r)
    BY DEF Stands
  <2>1. CASE [PayrollNext]_payrollVars
    BY <2>1, StandsInStep DEF OfficesIInv
  <2>2. CASE UNCHANGED payrollRecords
    BY <2>2 DEF payrollRecords, Stands, SlipsOf
  <2> QED BY <1>1, <2>1, <2>2
<1>3. OfficesIInv /\ [OfficesNext]_officesVars =>
          [\A c \in Newsletters \ entangled' :
              campaigns'[c].recipients # campaigns[c].recipients =>
                  \A p \in People : mailings[c][p] = 0]_campaignVars
  BY <1>1, RecipientsSettled DEF OfficesIInv, campaignRecords
<1>4. OfficesIInv /\ [OfficesNext]_officesVars =>
          [\A r \in Resolutions, d \in Directors :
              resolutions[r].status # "absent"
                  /\ resolutions'[r].rows[d] # resolutions[r].rows[d] =>
              \E h \in Handlers :
                  /\ voting[h] # Unseated /\ voting'[h] = Unseated
                  /\ voting[h].r = r /\ voting[h].d = d]_boardVars
  BY <1>1, VoteWriter DEF OfficesIInv, boardRecords
<1>5. OfficesIInv /\ [OfficesNext]_officesVars =>
          [\A r \in Resolutions \ misrouted :
              resolutions[r].type = "Written"
                  /\ resolutions[r].status = "Closed"
                  => resolutions'[r].rows = resolutions[r].rows]_boardVars
  BY <1>1, NoLateResponse DEF OfficesIInv, boardRecords
<1> QED
  BY <1>2, <1>3, <1>4, <1>5, OfficesInvariance, PTL
     DEF OfficesSpec, ProcessedStands, AudienceStands, VotesAreOwn,
         ResponsesStand
=============================================================================
