------------------------------ MODULE MCOffice ------------------------------
\* Office for TLC: the entry points in use and the approval lines.
EXTENDS Office

MCQuotationScenes == {{}, {"race"}, {"drafts"}}
MCApprovalScenes ==
    {{"reject"}, {"race"}, {"race", "reject", "submit", "edit"},
     {"approver", "edit", "reject", "race"}}
MCNumberScenes == {{}, {"race"}, {"erase"}, {"race", "erase"}}
MCSourcingScenes == {{}, {"race"}, {"admin"}, {"race", "admin"}}
MCStoreScenes ==
    {{"sync", "wizard", "convert"}, {"wizard", "convert", "race"}, {"import", "wizard", "crash"},
     {"sync", "import", "convert", "race"}, {"sync", "convert", "push"},
     {"sync", "push", "race", "crash"}}
MCTicketScenes ==
    {{"job", "close"}, {"job", "edit"},
     {"assign", "resolve", "close", "edit", "patch"}}

Lvl(mode, width) == [mode |-> mode, width |-> width]
MCApprovalLines ==
    {<<Lvl("ANY", 2), Lvl("SEQUENTIAL", 1)>>, <<Lvl("ALL", 2), Lvl("SEQUENTIAL", 1)>>,
     <<Lvl("SEQUENTIAL", 1), Lvl("ALL", 2)>>, <<Lvl("SEQUENTIAL", 1), Lvl("ANY", 2)>>,
     <<Lvl("SEQUENTIAL", 2), Lvl("SEQUENTIAL", 1)>>, << >>}

\* Two quotations where requests neither race nor leave drafts to lapse; elsewhere the
\* second was deleted before.
MCInit ==
    /\ OfficeInit
    /\ quote[1].row = "absent"
    /\ quote[2].row = IF scene = {} THEN "absent" ELSE "erased"

MCSpec ==
    /\ MCInit /\ [][OfficeNext]_office
    /\ Fairness /\ Marketplace!Fairness /\ Tickets!Fairness
=============================================================================
