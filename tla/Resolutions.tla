----------------------------- MODULE Resolutions -----------------------------
(***************************************************************************)
(* Resolutions of a board: ResolutionService of resolution.service.ts.     *)
(* Directors vote on one (Board), are circulated one (Written), or the     *)
(* figures of a shareholders' poll are entered (Shareholder); closing      *)
(* works the outcome out.                                                  *)
(*                                                                         *)
(* Every operation reads the document, decides and saves it.  save()       *)
(* writes the paths that have changed.  markModified writes an array as a  *)
(* whole, for which mongoose asks that the version be the one that was     *)
(* read; this and a push to an array add one to the version.               *)
(***************************************************************************)
EXTENDS Requests

CONSTANTS
    Resolutions, \* bound: the resolutions that can ever be drafted
    Directors,   \* the members of the board
    Polls        \* figures that can be entered for a poll of shareholders

NoDirector == "no director"

PollFigures == [for : Nat, against : Nat, abstain : Nat, present : Nat]

ASSUME ResolutionsAssumption ==
    /\ IsFiniteSet(Directors)
    /\ NoDirector \notin Directors
    /\ Polls \subseteq PollFigures

VARIABLES
    resolutions, \* grc_resolutions
    voting,      \* what handlers are doing
    overtaken,   \* history: resolutions saved by a request after they were
                 \* no longer what it had read
    misrouted    \* history: resolutions closed as one of another type

boardHistory == <<overtaken, misrouted>>
boardVars == <<requests, faults, resolutions, voting, boardHistory>>

Type == {"Board", "Written", "Shareholder"}
Ballot == {"Approve", "Oppose", "Abstain"}
\* Sent stands for Reminded too.  A board vote has no status.
Row == [recused : BOOLEAN, vote : Ballot \union {"none"},
        status : {"Not sent", "Sent", "Responded"}]
Resolution == [type : Type, rule : {"Simple", "Special"},
               status : {"absent", "Draft", "Voting open", "Circulating",
                         "Closed"},
               outcome : {"none", "Passed", "Failed"},
               rows : [Directors -> Row], poll : PollFigures, version : Nat]
\* What a request is about to save: read, as it found it, new, as it wants
\* it.  The name of a type means closing as for that type.
VotingJob == [op : {"row", "poll", "proxy"} \union Type, r : Resolutions,
              d : Directors \union {NoDirector},
              read : Resolution, new : Resolution]

NoPoll == [for |-> 0, against |-> 0, abstain |-> 0, present |-> 0]
NoRow == [recused |-> FALSE, vote |-> "none", status |-> "Not sent"]
Undrafted == [type |-> "Board", rule |-> "Simple", status |-> "absent",
              outcome |-> "none", rows |-> [d \in Directors |-> NoRow],
              poll |-> NoPoll, version |-> 0]
Unseated == [op |-> "none"]

ResolutionTypeOK ==
    /\ {requests, faults} \subseteq Nat
    /\ resolutions \in [Resolutions -> Resolution]
    /\ voting \in [Handlers -> VotingJob \union {Unseated}]
    /\ {overtaken, misrouted} \subseteq SUBSET Resolutions

ResolutionInit ==
    /\ requests = 0
    /\ faults = 0
    /\ resolutions = [r \in Resolutions |-> Undrafted]
    /\ voting = [h \in Handlers |-> Unseated]
    /\ overtaken = {} /\ misrouted = {}

-----------------------------------------------------------------------------
(* Tally and outcome *)

\* A resolution has the rows of its own type only.
Eligible(doc, type) ==
    IF doc.type = type THEN {d \in Directors : ~doc.rows[d].recused} ELSE {}
Voters(doc, type, ballot) ==
    {d \in Eligible(doc, type) : doc.rows[d].vote = ballot}

\* Mutant of Carries: half of the votes will do.
CarriesByHalf(for, total, rule) ==
    total > 0 /\ IF rule = "Special" THEN 4 * for >= 3 * total
                 ELSE 2 * for >= total
\* computeOutcome
Carries(for, total, rule) ==
    total > 0 /\ IF rule = "Special" THEN 4 * for >= 3 * total
                 ELSE 2 * for > total

Carried(doc, type) ==
    IF type = "Shareholder"
    THEN Carries(doc.poll.for,
                 doc.poll.for + doc.poll.against + doc.poll.abstain, doc.rule)
    ELSE Carries(Cardinality(Voters(doc, type, "Approve")),
                 Cardinality(Eligible(doc, type)), "Simple")
Verdict(doc, type) == IF Carried(doc, type) THEN "Passed" ELSE "Failed"

\* A circulation can be closed at any time by force, or once the deadline
\* has passed.
Closable(doc, type) ==
    CASE type = "Board" ->
             /\ Eligible(doc, type) # {}
             /\ Voters(doc, type, "none") = {}
      [] type = "Written" -> TRUE
      [] type = "Shareholder" -> doc.poll.present >= 50

-----------------------------------------------------------------------------
(* The operations up to their save *)

\* create: a row for each director; who has declared a conflict is recused.
\* Only a shareholders' resolution can be special.
Draft(r, type, rule, recused) ==
    /\ Request
    /\ resolutions[r].status = "absent"
    /\ rule = "Simple" \/ type = "Shareholder"
    /\ resolutions' = [resolutions EXCEPT ![r] =
           [Undrafted EXCEPT !.type = type, !.rule = rule,
                !.status = "Draft",
                !.rows = [d \in Directors |->
                             [NoRow EXCEPT !.recused = d \in recused]]]]
    /\ UNCHANGED <<voting, boardHistory>>

\* assertNotClosed
OpenToChange(r) == resolutions[r].status \notin {"absent", "Closed"}

Reads(h, op, r, d, new) ==
    /\ Request
    /\ voting[h] = Unseated
    /\ OpenToChange(r)
    /\ voting' = [voting EXCEPT ![h] =
           [op |-> op, r |-> r, d |-> d, read |-> resolutions[r],
            new |-> new]]
    /\ UNCHANGED <<resolutions, boardHistory>>

\* The first vote opens a draft, the first mail circulates it.
Opened(doc, status) == IF doc.status = "Draft" THEN status ELSE doc.status

\* setBoardVote, castMyBoardVote: a vote that was cast can be cast anew.
Vote(h, r, d, ballot) == LET doc == resolutions[r] IN
    /\ doc.type = "Board" /\ ~doc.rows[d].recused
    /\ Reads(h, "row", r, d,
             [doc EXCEPT !.rows = [doc.rows EXCEPT ![d].vote = ballot],
                         !.status = Opened(doc, "Voting open")])

\* setWrittenStatus, also of one who has responded
Circulate(h, r, d) == LET doc == resolutions[r] IN
    /\ doc.type = "Written"
    /\ Reads(h, "row", r, d,
             [doc EXCEPT !.rows = [doc.rows EXCEPT ![d].status = "Sent"],
                         !.status = Opened(doc, "Circulating")])

\* recordWrittenResponse, and respondMyWritten, which asks in addition that
\* it was sent to the director
Respond(h, r, d, ballot) == LET doc == resolutions[r] IN
    /\ doc.type = "Written" /\ ~doc.rows[d].recused
    /\ Reads(h, "row", r, d,
             [doc EXCEPT !.rows = [doc.rows EXCEPT ![d].vote = ballot,
                                       ![d].status = "Responded"]])

\* addProxy: nothing reads the proxies.
AddProxy(h, r) == Reads(h, "proxy", r, NoDirector, resolutions[r])

\* saveShareholderPoll, of a resolution of any type
EnterPoll(h, r, poll) == LET doc == resolutions[r] IN
    Reads(h, "poll", r, NoDirector,
          [doc EXCEPT !.poll = poll, !.status = Opened(doc, "Voting open")])

\* closeBoardVote, closeWritten, closeShareholder: none asks for the type.
Close(h, r, type) == LET doc == resolutions[r] IN
    /\ Closable(doc, type)
    /\ Reads(h, type, r, NoDirector,
             [doc EXCEPT !.outcome = Verdict(doc, type),
                         !.status = "Closed"])

-----------------------------------------------------------------------------
(* The save *)

\* Mutant of Fits: an array is written whatever became of it.
FitsAlways(job, doc) == TRUE
Fits(job, doc) == job.op = "row" => doc.version = job.read.version

\* Mutant of Bumps: closing leaves no note among the notifications.
BumpsUnlessClosing == {"row", "proxy"}
\* closeWritten pushes to the notifications.
Bumps == {"row", "proxy", "Written"}

\* A path that the request did not change stays as it is by now.
Merged(read, new, now) == IF new = read THEN now ELSE new

Written(job, doc) ==
    [doc EXCEPT
        !.status = Merged(job.read.status, job.new.status, doc.status),
        !.outcome = Merged(job.read.outcome, job.new.outcome, doc.outcome),
        !.rows = IF job.op = "row" THEN job.new.rows ELSE doc.rows,
        !.poll = [f \in DOMAIN doc.poll |->
                     Merged(job.read.poll[f], job.new.poll[f], doc.poll[f])],
        !.version = IF job.op \in Bumps THEN doc.version + 1
                    ELSE doc.version]

SaveResolution(h) ==
    LET job == voting[h]
        doc == resolutions[job.r]
    IN
    /\ job # Unseated
    /\ Step
    /\ Fits(job, doc)
    /\ resolutions' = [resolutions EXCEPT ![job.r] = Written(job, doc)]
    /\ overtaken' = IF doc = job.read THEN overtaken
                    ELSE overtaken \union {job.r}
    /\ misrouted' = IF job.op \in Type \ {doc.type}
                    THEN misrouted \union {job.r} ELSE misrouted
    /\ voting' = [voting EXCEPT ![h] = Unseated]

\* VersionError
RefuseSave(h) ==
    /\ voting[h] # Unseated
    /\ Step
    /\ ~Fits(voting[h], resolutions[voting[h].r])
    /\ voting' = [voting EXCEPT ![h] = Unseated]
    /\ UNCHANGED <<resolutions, boardHistory>>

VotingFault(h) ==
    /\ voting[h] # Unseated
    /\ Fault
    /\ voting' = [voting EXCEPT ![h] = Unseated]
    /\ UNCHANGED <<resolutions, boardHistory>>

-----------------------------------------------------------------------------
ResolutionNext ==
    \/ \E r \in Resolutions :
           \E type \in Type, rule \in {"Simple", "Special"},
              recused \in SUBSET Directors : Draft(r, type, rule, recused)
    \/ \E h \in Handlers :
           \/ \E r \in Resolutions :
                  \/ \E d \in Directors :
                         \/ \E ballot \in Ballot : \/ Vote(h, r, d, ballot)
                                                   \/ Respond(h, r, d, ballot)
                         \/ Circulate(h, r, d)
                  \/ AddProxy(h, r)
                  \/ \E poll \in Polls : EnterPoll(h, r, poll)
                  \/ \E type \in Type : Close(h, r, type)
           \/ SaveResolution(h) \/ RefuseSave(h) \/ VotingFault(h)

ResolutionSpec == ResolutionInit /\ [][ResolutionNext]_boardVars

-----------------------------------------------------------------------------
(* Properties *)

\* Those in favour outnumber the others; for a special resolution they are
\* three times as many.
Majority(doc) ==
    LET for == IF doc.type = "Shareholder" THEN doc.poll.for
               ELSE Cardinality({d \in Directors : ~doc.rows[d].recused
                                     /\ doc.rows[d].vote = "Approve"})
        others == IF doc.type = "Shareholder"
                  THEN doc.poll.against + doc.poll.abstain
                  ELSE Cardinality({d \in Directors : ~doc.rows[d].recused
                                     /\ doc.rows[d].vote # "Approve"})
    IN IF doc.rule = "Special" THEN for + others > 0 /\ for >= 3 * others
       ELSE for > others

RightlyClosed(doc) ==
    /\ doc.outcome = IF Majority(doc) THEN "Passed" ELSE "Failed"
    /\ doc.type = "Board" => \A d \in Directors :
           doc.rows[d].recused \/ doc.rows[d].vote # "none"
    /\ doc.type = "Shareholder" => doc.poll.present >= 50

\* A closed resolution has the outcome of the votes on record, and everybody
\* has cast one, or of a poll with a quorum, whatever was voted again, entered
\* again or circulated before; unless somebody saved it on an earlier reading
\* or it was closed as one of another type.
OutcomeFollowsVotes ==
    \A r \in Resolutions \ (overtaken \union misrouted) :
        resolutions[r].status = "Closed" => RightlyClosed(resolutions[r])

\* The vote of a director moves only by a request about that director
\* (resolution.service.ts:363-367), though each of them writes the votes of
\* the whole board as it read them, at any distance of time.
VotesAreOwn ==
    [][\A r \in Resolutions, d \in Directors :
          resolutions[r].status # "absent"
              /\ resolutions'[r].rows[d] # resolutions[r].rows[d] =>
          \E h \in Handlers : /\ voting[h] # Unseated /\ voting'[h] = Unseated
                              /\ voting[h].r = r /\ voting[h].d = d]_boardVars

\* No response comes in after a written resolution was closed, not even one
\* that was under way before.
ResponsesStand ==
    [][\A r \in Resolutions \ misrouted :
          resolutions[r].type = "Written" /\ resolutions[r].status = "Closed"
              => resolutions'[r].rows = resolutions[r].rows]_boardVars
=============================================================================
