------------------------------ MODULE Campaigns ------------------------------
(***************************************************************************)
(* Campaigns of a tenant: CampaignService and CampaignSchedulerService of  *)
(* newsletter.service.ts; AlertService and its scheduler are their twins.  *)
(* A campaign is mailed to a snapshot of recipients, one after the other,  *)
(* between two saves of the document.  The job that starts every minute    *)
(* claims nothing, and a run may last longer than a minute.                *)
(*                                                                         *)
(* save() refuses to write elements of an array that was replaced since    *)
(* the document was read (mongoose's version key), and a document that is  *)
(* gone; what else has changed it does not see.                            *)
(***************************************************************************)
EXTENDS Requests

CONSTANTS
    Newsletters, \* bound: the campaigns that can ever be created
    People,      \* whom segments resolve to
    Ticks        \* bound: runs of the job that overlap

NoNewsletter == "no newsletter"
Senders == Handlers \union Ticks

ASSUME CampaignsAssumption ==
    /\ NoNewsletter \notin Newsletters
    /\ Handlers \intersect Ticks = {}

VARIABLES
    campaigns,    \* crm_campaigns
    scheduledFor, \* the campaigns whose time has come
    unsubscribed, \* the suppression list
    sending,      \* what handlers and runs of the job are doing
    mailings,     \* history: how often each person got each campaign
    entangled,    \* history: campaigns that two workers were at at once
    interrupted   \* history: campaigns that a fault left half done

campaignHistory == <<mailings, entangled, interrupted>>
campaignVars == <<requests, faults, campaigns, scheduledFor, unsubscribed,
                  sending, campaignHistory>>

CampaignStatus == {"absent", "Draft", "Scheduled", "Sending", "Sent",
                   "deleted"}
Campaign == [status : CampaignStatus, recipients : SUBSET People,
             delivered : SUBSET People, version : Nat]
SendingJob == [at : {"idle", "next", "schedule", "unschedule", "edit",
                     "start", "suppress", "mail"},
               c : Newsletters \union {NoNewsletter},
               seen : CampaignStatus, version : Nat,
               recipients : SUBSET People, delivered : SUBSET People,
               left : SUBSET People, todo : SUBSET Newsletters]

AtRest == [at |-> "idle", c |-> NoNewsletter, seen |-> "absent",
           version |-> 0, recipients |-> {}, delivered |-> {}, left |-> {},
           todo |-> {}]
Nothing == [status |-> "absent", recipients |-> {}, delivered |-> {},
            version |-> 0]

CampaignTypeOK ==
    /\ {requests, faults} \subseteq Nat
    /\ campaigns \in [Newsletters -> Campaign]
    /\ scheduledFor \subseteq Newsletters
    /\ unsubscribed \subseteq People
    /\ sending \in [Senders -> SendingJob]
    /\ mailings \in [Newsletters -> [People -> Nat]]
    /\ {entangled, interrupted} \subseteq SUBSET Newsletters

CampaignInit ==
    /\ requests = 0
    /\ faults = 0
    /\ campaigns = [c \in Newsletters |-> Nothing]
    /\ scheduledFor = {}
    /\ unsubscribed = {}
    /\ sending = [w \in Senders |-> AtRest]
    /\ mailings = [c \in Newsletters |-> [p \in People |-> 0]]
    /\ entangled = {} /\ interrupted = {}

-----------------------------------------------------------------------------
(* The life of a worker *)

Resting(w) == sending[w].at = "idle"
Gone(c) == campaigns[c].status \in {"absent", "deleted"}
Passed(w, at) == sending' = [sending EXCEPT ![w].at = at]
\* A handler has answered; a run of the job goes on with its list.
Finished(w) ==
    sending' = [sending EXCEPT ![w] =
        IF w \in Ticks
        THEN [AtRest EXCEPT !.at = "next", !.todo = sending[w].todo]
        ELSE AtRest]

\* Worker w reads campaign c to act on it.
ReadBy(w, c, at) ==
    sending' = [sending EXCEPT ![w].at = at, ![w].c = c,
                    ![w].seen = campaigns[c].status,
                    ![w].version = campaigns[c].version,
                    ![w].recipients = campaigns[c].recipients,
                    ![w].todo = @ \ {c}]
NoteEntangled(w, c) ==
    entangled' = IF \E v \in Senders \ {w} : sending[v].c = c
                 THEN entangled \union {c} ELSE entangled

-----------------------------------------------------------------------------
(* Drafts and schedules *)

\* create, duplicate
CreateCampaign(c, recipients) ==
    /\ Request
    /\ campaigns[c].status = "absent"
    /\ campaigns' = [campaigns EXCEPT ![c].status = "Draft",
                                      ![c].recipients = recipients]
    /\ UNCHANGED <<scheduledFor, unsubscribed, sending, campaignHistory>>

DeleteCampaign(c) ==
    /\ Request
    /\ ~Gone(c)
    /\ campaigns' = [campaigns EXCEPT ![c].status = "deleted"]
    /\ UNCHANGED <<scheduledFor, unsubscribed, sending, campaignHistory>>

Operate(h, c, at) ==
    /\ Request
    /\ Resting(h)
    /\ ReadBy(h, c, at)
    /\ NoteEntangled(h, c)
    /\ UNCHANGED <<campaigns, scheduledFor, unsubscribed, mailings,
                   interrupted>>

Schedule(h, c) == campaigns[c].status = "Draft" /\ Operate(h, c, "schedule")
Unschedule(h, c) ==
    campaigns[c].status = "Scheduled" /\ Operate(h, c, "unschedule")

SaveSchedule(h) == LET c == sending[h].c IN
    /\ sending[h].at \in {"schedule", "unschedule"}
    /\ Step
    /\ campaigns' = IF Gone(c) THEN campaigns
           ELSE [campaigns EXCEPT ![c].status =
                    IF sending[h].at = "schedule" THEN "Scheduled" ELSE "Draft"]
    /\ scheduledFor' = scheduledFor \ {c}
    /\ Finished(h)
    /\ UNCHANGED <<unsubscribed, campaignHistory>>

\* Mutant of Editable: a campaign that is being sent can be edited.
EditableUnlessSent(c) ==
    campaigns[c].status \in {"Draft", "Scheduled", "Sending"}
Editable(c) == campaigns[c].status \in {"Draft", "Scheduled"}

\* update to other segments: the recipients are resolved anew
Edit(h, c) == Editable(c) /\ Operate(h, c, "edit")

SaveEdit(h, recipients) ==
    LET c == sending[h].c
        fails == Gone(c) \/ campaigns[c].version # sending[h].version
    IN
    /\ sending[h].at = "edit"
    /\ Step
    /\ campaigns' = IF fails THEN campaigns
           ELSE [campaigns EXCEPT ![c].recipients = recipients,
                     ![c].delivered = {}, ![c].version = @ + 1]
    /\ Finished(h)
    /\ UNCHANGED <<scheduledFor, unsubscribed, campaignHistory>>

TimeComes(c) ==
    /\ Step
    /\ campaigns[c].status = "Scheduled" /\ c \notin scheduledFor
    /\ scheduledFor' = scheduledFor \union {c}
    /\ UNCHANGED <<campaigns, unsubscribed, sending, campaignHistory>>

Unsubscribe(p) ==
    /\ Request
    /\ p \notin unsubscribed
    /\ unsubscribed' = unsubscribed \union {p}
    /\ UNCHANGED <<campaigns, scheduledFor, sending, campaignHistory>>

Resubscribe(p) ==
    /\ Request
    /\ p \in unsubscribed
    /\ unsubscribed' = unsubscribed \ {p}
    /\ UNCHANGED <<campaigns, scheduledFor, sending, campaignHistory>>

-----------------------------------------------------------------------------
(* Sending *)

\* CampaignSchedulerService.sendDueCampaigns lists what is due.
StartRun(t) ==
    LET listed == {c \in scheduledFor : campaigns[c].status = "Scheduled"} IN
    /\ Step
    /\ Resting(t)
    /\ listed # {}
    /\ sending' = [sending EXCEPT ![t] =
                      [AtRest EXCEPT !.at = "next", !.todo = listed]]
    /\ UNCHANGED <<campaigns, scheduledFor, unsubscribed, campaignHistory>>

EndRun(t) ==
    /\ sending[t].at = "next" /\ sending[t].todo = {}
    /\ Step
    /\ sending' = [sending EXCEPT ![t] = AtRest]
    /\ UNCHANGED <<campaigns, scheduledFor, unsubscribed, campaignHistory>>

\* Mutant of Sendable: what has been sent can be sent.
SendableAgain(c) == ~Gone(c)
\* All that sendNow asks: a draft, or one that is being sent, will do.
Sendable(c) == ~Gone(c) /\ campaigns[c].status # "Sent"

SendNow(h, c) == Sendable(c) /\ Operate(h, c, "start")

\* The job calls sendNow for each of its list; what throws is passed by.
SendListed(t, c) ==
    /\ sending[t].at = "next" /\ c \in sending[t].todo
    /\ Step
    /\ IF Sendable(c)
       THEN ReadBy(t, c, "start") /\ NoteEntangled(t, c)
       ELSE /\ sending' = [sending EXCEPT ![t].todo = @ \ {c}]
            /\ UNCHANGED entangled
    /\ UNCHANGED <<campaigns, scheduledFor, unsubscribed, mailings,
                   interrupted>>

\* The first save: Sending.
SaveSending(w) == LET c == sending[w].c IN
    /\ sending[w].at = "start"
    /\ Step
    /\ IF Gone(c) THEN Finished(w) /\ UNCHANGED campaigns
       ELSE /\ campaigns' = [campaigns EXCEPT ![c].status =
                   IF sending[w].seen = "Sending" THEN @ ELSE "Sending"]
            /\ Passed(w, "suppress")
    /\ UNCHANGED <<scheduledFor, unsubscribed, campaignHistory>>

\* suppressedSet: who has unsubscribed since the snapshot is left out.
Suppress(w) ==
    /\ sending[w].at = "suppress"
    /\ Step
    /\ sending' = [sending EXCEPT ![w].at = "mail",
                       ![w].left = sending[w].recipients \ unsubscribed]
    /\ UNCHANGED <<campaigns, scheduledFor, unsubscribed, campaignHistory>>

\* Mutant of Noted: everyone counts as delivered.
NotedAnyway(delivered, p, arrived) == delivered \union {p}
Noted(delivered, p, arrived) ==
    IF arrived THEN delivered \union {p} ELSE delivered

\* One mail; a failure is noted with the recipient.
Mail(w, p, arrived) == LET c == sending[w].c IN
    /\ sending[w].at = "mail" /\ p \in sending[w].left
    /\ Step
    /\ mailings' = IF arrived THEN [mailings EXCEPT ![c][p] = @ + 1]
                   ELSE mailings
    /\ sending' = [sending EXCEPT ![w].left = @ \ {p},
           ![w].delivered = Noted(@, p, arrived)]
    /\ UNCHANGED <<campaigns, scheduledFor, unsubscribed, entangled,
                   interrupted>>

\* The second save: Sent, with what became of each mail.
SaveSent(w) ==
    LET c == sending[w].c
        fails == \/ Gone(c)
                 \/ /\ sending[w].recipients # {}
                    /\ campaigns[c].version # sending[w].version
    IN
    /\ sending[w].at = "mail" /\ sending[w].left = {}
    /\ Step
    /\ campaigns' = IF fails THEN campaigns
           ELSE [campaigns EXCEPT ![c].status = "Sent",
                     ![c].delivered = sending[w].delivered]
    /\ Finished(w)
    /\ UNCHANGED <<scheduledFor, unsubscribed, campaignHistory>>

\* A database call fails, or the server goes down with the worker; a run of
\* the job catches what one campaign throws.
CampaignFault(w) ==
    /\ sending[w].c # NoNewsletter
    /\ Fault
    /\ interrupted' = interrupted \union {sending[w].c}
    /\ \/ Finished(w)
       \/ sending' = [sending EXCEPT ![w] = AtRest]
    /\ UNCHANGED <<campaigns, scheduledFor, unsubscribed, mailings,
                   entangled>>

CampaignNext ==
    \/ \E c \in Newsletters :
           \/ \E recipients \in SUBSET People : CreateCampaign(c, recipients)
           \/ DeleteCampaign(c) \/ TimeComes(c)
           \/ \E h \in Handlers : \/ Schedule(h, c) \/ Unschedule(h, c)
                                  \/ Edit(h, c) \/ SendNow(h, c)
           \/ \E t \in Ticks : SendListed(t, c)
    \/ \E p \in People : Unsubscribe(p) \/ Resubscribe(p)
    \/ \E h \in Handlers :
           \/ SaveSchedule(h)
           \/ \E recipients \in SUBSET People : SaveEdit(h, recipients)
    \/ \E t \in Ticks : StartRun(t) \/ EndRun(t)
    \/ \E w \in Senders :
           \/ SaveSending(w) \/ Suppress(w) \/ SaveSent(w)
           \/ \E p \in People, arrived \in BOOLEAN : Mail(w, p, arrived)
           \/ CampaignFault(w)

CampaignSpec == CampaignInit /\ [][CampaignNext]_campaignVars

-----------------------------------------------------------------------------
(* Properties *)

\* Nobody gets a campaign twice, however it was scheduled, withdrawn, edited
\* and sent by hand or by the job, unless two workers were at it at once, or
\* it was sent again after it had got stuck (newsletter.service.ts:853-855).
MailedOnce ==
    \A c \in Newsletters \ (entangled \union interrupted), p \in People :
        mailings[c][p] <= 1

\* A partial failure does not mark everyone delivered
\* (newsletter.service.ts:839-841): once a campaign is sent, those marked are
\* those that got it.
DeliveredGotIt ==
    \A c \in Newsletters \ (entangled \union interrupted) :
        campaigns[c].status = "Sent" =>
            campaigns[c].delivered = {p \in People : mailings[c][p] > 0}

\* The audience changes only while nobody has a copy
\* (newsletter.service.ts:788-792); a campaign that got stuck half-way stays
\* closed for editing.
AudienceStands ==
    [][\A c \in Newsletters \ entangled' :
          campaigns'[c].recipients # campaigns[c].recipients =>
              \A p \in People : mailings[c][p] = 0]_campaignVars
=============================================================================
