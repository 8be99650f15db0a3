------------------------------- MODULE Offices -------------------------------
(***************************************************************************)
(* The back offices of a tenant side by side: payroll and loans, leave,    *)
(* campaigns, resolutions of the board.  They share the server, that is    *)
(* the requests in flight and the faults, and no record: hr.module.ts,     *)
(* tools.module.ts and governance.module.ts inject no service of one into  *)
(* another.  A behaviour is looked at through the steps of one office; the *)
(* steps of the others, which change nothing that it reads, stutter.       *)
(***************************************************************************)
EXTENDS Payroll, Leave, Campaigns, Resolutions

VARIABLE office \* the office that is looked at

payrollRecords == <<loans, history, runs, slips, issued, payroll,
                    payrollHistory>>
leaveRecords == <<leaves, allowed, used, balance, absence, leaveHistory>>
campaignRecords == <<campaigns, scheduledFor, unsubscribed, sending,
                     campaignHistory>>
boardRecords == <<resolutions, voting, boardHistory>>
officesVars == <<requests, faults, payrollRecords, leaveRecords,
                 campaignRecords, boardRecords, office>>

OfficesInit ==
    /\ PayrollInit /\ LeaveInit /\ CampaignInit /\ ResolutionInit
    /\ office \in {"payroll", "leave", "campaigns", "board"}

PayrollOffice ==
    /\ office = "payroll" /\ PayrollNext
    /\ UNCHANGED <<leaveRecords, campaignRecords, boardRecords, office>>
LeaveOffice ==
    /\ office = "leave" /\ LeaveNext
    /\ UNCHANGED <<payrollRecords, campaignRecords, boardRecords, office>>
CampaignOffice ==
    /\ office = "campaigns" /\ CampaignNext
    /\ UNCHANGED <<payrollRecords, leaveRecords, boardRecords, office>>
Boardroom ==
    /\ office = "board" /\ ResolutionNext
    /\ UNCHANGED <<payrollRecords, leaveRecords, campaignRecords, office>>

OfficesNext == PayrollOffice \/ LeaveOffice \/ CampaignOffice \/ Boardroom

OfficesSpec == OfficesInit /\ [][OfficesNext]_officesVars
=============================================================================
