-------------------------------- MODULE Routes --------------------------------
(***************************************************************************)
(* Delivery routes and their vehicles, as apps/logistics keeps them.        *)
(*                                                                         *)
(* A pre_save handler compares the status of a route to that of the row,    *)
(* read again; a post_save handler then sets the vehicle in use, or free,   *)
(* by the status of the vehicle as it was read with the route.  A route     *)
(* changes its status through the API, its vehicle through the form, and a  *)
(* vehicle its status through its own form.                                 *)
(***************************************************************************)
EXTENDS Naturals

CONSTANTS
    Vehicles,   \* vehicles are numbered 1..Vehicles
    Routes,     \* routes are numbered 1..Routes
    Session,    \* requests that may be in progress at once
    Scenes      \* the combinations of entry points

EntryPoint == {"complete", "move", "vehicle", "race", "crash"}

VARIABLES
    vehicle,    \* Vehicle.status
    route,      \* DeliveryRoute
    session, scene

vars == <<vehicle, route, session, scene>>

VehicleId == 1..Vehicles
RouteId == 1..Routes
VehicleStatus == {"AVAILABLE", "IN_USE", "MAINTENANCE"}
Status == {"PLANNED", "IN_PROGRESS", "COMPLETED"}
Route == [status: Status, vehicle: VehicleId]

\* row: what the request is about to write; cached: the status of its vehicle.
Work == [stage: {"idle", "read", "checked", "saved"}, at: 0..Routes,
         row: Route, cached: VehicleStatus]
Idle == [stage |-> "idle", at |-> 0, row |-> [status |-> "PLANNED", vehicle |-> 1],
         cached |-> "AVAILABLE"]

At(p, stage) == session[p].stage = stage
Goto(p, w) == session' = [session EXCEPT ![p] = w]
Done(p) == Goto(p, Idle)
AtRest == \A p \in Session : At(p, "idle")
MayStart(p) == At(p, "idle") /\ ("race" \in scene \/ AtRest)

-----------------------------------------------------------------------------
Reads(p, r, row) ==
    /\ MayStart(p)
    /\ Goto(p, [stage |-> "read", at |-> r, row |-> row, cached |-> vehicle[row.vehicle]])
    /\ UNCHANGED <<vehicle, route, scene>>

\* DeliveryRouteViewSet: the route is read together with its vehicle.
AskStatus(p, r, to) ==
    /\ to = "COMPLETED" => "complete" \in scene
    /\ Reads(p, r, [route[r] EXCEPT !.status = to])

\* RouteUpdateView: the status of the row it read, the vehicle of the form.
AskMove(p, r, v) == "move" \in scene /\ Reads(p, r, [route[r] EXCEPT !.vehicle = v])

\* STATUS_TRANSITIONS
Follows(old, to) == <<old, to>> \in {<<"PLANNED", "IN_PROGRESS">>, <<"IN_PROGRESS", "COMPLETED">>}

\* validate_route_status_transition
Check(p) ==
    LET w == session[p]
    IN  /\ At(p, "read")
        /\ IF w.row.status = route[w.at].status \/ Follows(route[w.at].status, w.row.status)
           THEN Goto(p, [w EXCEPT !.stage = "checked"]) ELSE Done(p)
        /\ UNCHANGED <<vehicle, route, scene>>

Write(p) ==
    LET w == session[p]
    IN  /\ At(p, "checked")
        /\ route' = [route EXCEPT ![w.at] = w.row]
        /\ Goto(p, [w EXCEPT !.stage = "saved"])
        /\ UNCHANGED <<vehicle, scene>>

Takes(status, cached) == status = "IN_PROGRESS" /\ cached # "IN_USE"

\* Mutant: a route that is only planned frees its vehicle too.
FreesOffRoad(status, cached) == status # "IN_PROGRESS" /\ cached = "IN_USE"

Frees(status, cached) == status = "COMPLETED" /\ cached = "IN_USE"

\* update_vehicle_status_on_route
HandleSave(p) ==
    LET w == session[p]
    IN  /\ At(p, "saved")
        /\ vehicle' = [vehicle EXCEPT ![w.row.vehicle] =
                         IF Takes(w.row.status, w.cached) THEN "IN_USE"
                         ELSE IF Frees(w.row.status, w.cached) THEN "AVAILABLE" ELSE @]
        /\ Done(p)
        /\ UNCHANGED <<route, scene>>

\* VehicleUpdateView, VehicleViewSet: any status.
SetVehicle(p, v, to) ==
    /\ "vehicle" \in scene /\ MayStart(p)
    /\ vehicle' = [vehicle EXCEPT ![v] = to]
    /\ UNCHANGED <<route, session, scene>>

\* The worker is killed; what was committed stays.
Crash(p) ==
    /\ "crash" \in scene /\ ~At(p, "idle")
    /\ Done(p)
    /\ UNCHANGED <<vehicle, route, scene>>

-----------------------------------------------------------------------------
Init ==
    /\ scene \in Scenes
    /\ vehicle = [v \in VehicleId |-> "AVAILABLE"]
    /\ route \in [RouteId -> [status: {"PLANNED"}, vehicle: VehicleId]]
    /\ session = [p \in Session |-> Idle]

Next ==
    \E p \in Session :
        \/ \E r \in RouteId :
             \/ \E to \in Status : AskStatus(p, r, to)
             \/ \E v \in VehicleId : AskMove(p, r, v)
        \/ Check(p) \/ Write(p) \/ HandleSave(p) \/ Crash(p)
        \/ \E v \in VehicleId, to \in VehicleStatus : SetVehicle(p, v, to)

Spec == Init /\ [][Next]_vars

-----------------------------------------------------------------------------
(* What holds. *)

TypeOK ==
    /\ scene \in Scenes
    /\ vehicle \in [VehicleId -> VehicleStatus] /\ route \in [RouteId -> Route]
    /\ session \in [Session -> Work]

OnRoad(v) == \E r \in RouteId : route[r] = [status |-> "IN_PROGRESS", vehicle |-> v]
\* A completed route of v; where routes are moved, one that may have been.
BackHome(v) ==
    \E r \in RouteId : route[r].status = "COMPLETED" /\ ("move" \in scene \/ route[r].vehicle = v)

\* The status of a vehicle left to its routes, a vehicle on the road is in use,
\* unless another of its routes is completed or a completion races; and, one
\* request at a time, it is in use only on the road, unless a route was moved.
InUseOnTheRoad ==
    scene \cap {"vehicle", "crash"} = {} /\ AtRest =>
        \A v \in VehicleId :
            /\ OnRoad(v) /\ ~BackHome(v) /\ ~({"race", "complete"} \subseteq scene) =>
                 vehicle[v] = "IN_USE"
            /\ vehicle[v] = "IN_USE" /\ scene \cap {"move", "race"} = {} => OnRoad(v)
=============================================================================
