---------------------------- MODULE MCBackOffice ----------------------------
(***************************************************************************)
(* Small instances of the components of the back office: the scenes under   *)
(* which each is checked, and the values a configuration cannot name.       *)
(***************************************************************************)
EXTENDS BackOffice, TLC

CONSTANTS p1, p2

TwoSessions == {p1, p2}
Alike == Permutations(TwoSessions)
One == {1}
Two == {2}
SameOrNot == {<<1, 1>>, <<1, 2>>}
Racing == {"status", "receive", "race", "crash"}
Receiving == {"receive", "race"}
ReceivingClosed == {"receive", "race", "closed"}
Removing == {"status", "receive", "remove", "delete"}
RemovingRace == {"receive", "remove", "race"}
EditingRace == {"receive", "edit", "race"}
AllScenes == {Racing, Receiving, ReceivingClosed, Removing, RemovingRace, EditingRace}
RecordingSets == {{"record", "form", "race"}, {"record", "form", "crash"}, {"record", "race", "crash"}}
EditingSets == {{"record", "form", "edit"}, {"record", "form", "edit", "longer"}}
MoneySets ==
    {{"status", "edit", "race"}, {"status", "race", "crash"}, {"status", "fee", "race"},
     {"status", "race", "payers"}, {"fee", "race", "payers"}, {"status", "claim", "fee", "edit"}}
LeaveSets ==
    {{"approve", "race", "crash"}, {"approve", "reject", "cancel", "grant", "retire", "admin"},
     {"approve", "cancel", "race", "crash"}, {"approve", "reject", "race"},
     {"approve", "edit"}, {"approve", "reopen", "retire"}}
AssetSets ==
    {{"run", "race"}, {"run", "edit", "race"}, {"edit", "dispose", "race", "crash"},
     {"dispose", "catchup", "edit", "crash"}}
PickingSets ==
    {{"admin", "race", "crash"}, {"admin", "form", "back", "wave"}, {"admin", "form", "race"},
     {"patch", "wave", "crash"}, {"patch", "race"}}
ReturnSets ==
    {{"edit", "race"}, {"edit", "late", "ship", "cancel"}, {"ship", "race", "crash"},
     {"cancel", "race"}, {"closed", "edit", "crash", "cancel"}, {"edit", "ship", "cancel"}}
CardSets ==
    {{"late", "jobs", "race", "crash"}, {"cancel", "edit", "race"},
     {"late", "cancel", "edit", "jobs"}, {"cancel", "jobs", "race"}}
VoucherSets == {{"race"}, {"race", "patch"}, {"patch", "crash"}, {"patch"}, {"crash"}}
BookSets ==
    {{"form", "race"}, {"form", "api", "restore"}, {"auto", "restore"},
     {"form", "auto", "move", "erase"}, {"auto", "admin"}}
FormsOfBooks ==
    {[first |-> 2, second |-> 0, credit |-> 2], [first |-> 1, second |-> 1, credit |-> 1]}
TwoPolicies == [default : {"APPROVED"}, limit : {1, 2}]
SettlementSets ==
    {{"form", "job", "race", "crash"}, {"form", "job", "pay", "manual"},
     {"form", "pay", "manual", "race"}, {"form", "pay", "manual", "closing"}}
InvoiceSets ==
    {{"query", "cancel", "race"}, {"outage", "lost", "race"},
     {"crash", "cancel", "query", "lost"}, {"edit", "race", "retire"}}
BatchSets == {{"batch", "race"}, {"batch", "outage", "query", "cancel"}}
UpkeepSets ==
    {{"machine", "retire", "order"}, {"job", "race", "crash"}, {"job", "patch"},
     {"machine", "job", "reopen", "patch"}, {"machine", "race", "crash"}}
QualitySets ==
    {{"race", "form", "resolve"}, {"race", "patch"}, {"form", "patch", "resolve", "verify"},
     {"crash", "form"}}
VersionSets ==
    {{"version", "race"}, {"race", "admin"}, {"admin", "again"}, {"version", "again", "crash"}}
RouteSets ==
    {{"race", "move"}, {"complete"}, {"move", "complete"}, {"complete", "move", "vehicle", "crash"}}
CostSets ==
    {{"shrink"}, {"diamond"}, {"diamond", "shrink"}, {"standard"}, {"settle", "standard"},
     {"settle", "shrink"}}
CountSets == {{}}

\* What is there at the start: where the
\* entry points are many, lines of two products, one piece in stock or two, vouchers
\* beyond the limit, and none, some or all of the products with a standard that
\* renews itself.
MCInit ==
    /\ BackOfficeInit
    /\ part = "purchasing" /\ scene = EditingRace => product = <<1, 2>>
    /\ part = "picking" /\ entries \in {{"patch", "race"}, {"admin", "race", "crash"}} =>
         opening = [q \in 1..2 |-> 1]
    /\ part = "picking" /\ entries = {"admin", "form", "race"} => opening = [q \in 1..2 |-> 2]
    /\ part = "closing" /\ entries = {"form", "api", "restore"} => policy.limit = 1
    /\ part = "costs" /\ entries \in {{"shrink"}, {"diamond"}} => auto \in {{}, {3}, {2, 4}, {2, 3, 4}}
    /\ part = "costs" /\ entries = {"standard"} => auto = {3}

MCSpec == MCInit /\ [][BackOfficeNext]_backoffice
=============================================================================
