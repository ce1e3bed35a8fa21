---------------------------- MODULE StoredFiles ----------------------------
(***************************************************************************)
(* What upgrades, starts and the `kvn config` commands do to the two files *)
(* of a user, profiles.json and routing.json (config.rs,                   *)
(* config/profile/migrate.rs, config/profile/routing.rs, Model::new in     *)
(* app/model.rs, cli/config.rs).  A start migrates an old profiles.json,   *)
(* gives it a hardware id, creates routing.json from the regions it had,   *)
(* and moves the service overrides of old versions over; `reset` and       *)
(* `recover` archive and replace either file.  A crash may come between    *)
(* any two writes, and a write may fail.                                   *)
(***************************************************************************)
EXTENDS Naturals, FiniteSets

CONSTANTS Regions,     \* the regions with modes of their own
          MaxCommands  \* kvn config commands that are run

Mode(r) == <<"bypass", r>>
Global == <<"global", "">>
Work == <<"work", "">>      \* a mode of the user's own
NoRegion == "none"

\* profiles.json.  Versions before 8 have a current region and modes by region.
ProfilesType ==
    [is : {"none", "bad", "old", "new"}, mode : {Global, Work} \cup {Mode(r) : r \in Regions},
     current : Regions \cup {NoRegion}, used : SUBSET Regions, services : BOOLEAN, hwid : BOOLEAN]
\* routing.json: the regions it has modes of, and the rules for services.
RoutingType ==
    [is : {"none", "bad", "ok"}, regions : SUBSET Regions, work : BOOLEAN, services : BOOLEAN]

Profiles(is) ==
    [is |-> is, mode |-> Global, current |-> NoRegion, used |-> {}, services |-> FALSE,
     hwid |-> FALSE]
Routing(regions) == [is |-> "ok", regions |-> regions, work |-> FALSE, services |-> FALSE]
NoRouting == [Routing({}) EXCEPT !.is = "none"]

VARIABLES
    profiles,  \* profiles.json
    routing,   \* routing.json
    archived,  \* contents of recovery files
    start,     \* a daemon: where its start is, and the configuration it has
    command,   \* kvn config: where it is and what it writes
    commands,  \* kvn config commands so far
    overlapped \* a daemon has started while a command wrote its files

vars == <<profiles, routing, archived, start, command, commands, overlapped>>

NoStart == [at |-> "off", config |-> Profiles("none")]
NoCommand ==
    [at |-> "none", profiles |-> Profiles("none"), routing |-> NoRouting, asks |-> FALSE]

TypeOK ==
    /\ profiles \in ProfilesType /\ routing \in RoutingType
    /\ start.config \in ProfilesType
    /\ command.profiles \in ProfilesType /\ command.routing \in RoutingType
-----------------------------------------------------------------------------
\* GeoRouting::select_legacy_region_mode
SelectLegacyRegionMode(p) == IF p.current \in p.used THEN Mode(p.current) ELSE Global

\* Config::migrate; the steps before version 8 change nothing that is told apart here.
Migrated(p) ==
    IF p.is = "old" THEN [p EXCEPT !.is = "new", !.mode = SelectLegacyRegionMode(p)] ELSE p

\* The fields of old versions are not written back.
Serialized(p) == [p EXCEPT !.current = NoRegion, !.used = {}]

\* GeoRouting::used_regions
UsedRegions(p) == {r \in Regions : p.mode = Mode(r) \/ p.current = r \/ r \in p.used}

\* RoutingConfig::for_new_file
ForNewFile(p) == Routing(UsedRegions(p))

\* RoutingConfig::adopt_service_routes
AdoptServiceRoutes(r) == [r EXCEPT !.services = TRUE]

Declares(r, mode) ==
    \/ mode = Global
    \/ mode = Work /\ r.work
    \/ \E region \in r.regions : mode = Mode(region)
-----------------------------------------------------------------------------
(* A start of the daemon.                                                  *)

Init ==
    /\ \/ /\ \E current \in Regions \cup {NoRegion}, used \in SUBSET Regions, s \in BOOLEAN :
                profiles = [Profiles("old") EXCEPT !.current = current, !.used = used,
                                                   !.services = s]
          /\ routing = NoRouting
       \/ profiles \in {Profiles("none"), Profiles("bad")} /\ routing = NoRouting
       \/ profiles = [Profiles("new") EXCEPT !.mode = Work, !.hwid = TRUE]
          /\ routing \in {[Routing(Regions) EXCEPT !.work = TRUE], [NoRouting EXCEPT !.is = "bad"]}
    /\ archived = {} /\ start = NoStart /\ command = NoCommand /\ commands = 0
    /\ overlapped = FALSE

\* load_config_at: a new file is not written before it has a hardware id.
Load ==
    /\ start = NoStart
    /\ start' =
        CASE profiles.is = "bad" -> [at |-> "blocked", config |-> Profiles("none")]
          [] profiles.is = "old" -> [at |-> "migrate", config |-> Migrated(profiles)]
          [] profiles.is = "new" -> [at |-> "hwid", config |-> profiles]
          [] OTHER -> [at |-> "hwid", config |-> Profiles("new")]
    /\ overlapped' = (overlapped \/ command.at \in {"routing", "profiles"})
    /\ UNCHANGED <<profiles, routing, archived, command, commands>>

\* preserve_at, save_config_at_revision
SaveMigrated ==
    /\ start.at = "migrate"
    /\ \/ /\ profiles.is = "old"
          /\ archived' = archived \cup {profiles}
          /\ profiles' = Serialized(start.config)
          /\ start' = [start EXCEPT !.at = "hwid"]
       \/ /\ start' = [at |-> "blocked", config |-> Profiles("none")]
          /\ archived' \in {archived, archived \cup {profiles}}
          /\ UNCHANGED profiles
    /\ UNCHANGED <<routing, command, commands, overlapped>>

EnsureHwid ==
    /\ start.at = "hwid"
    /\ \/ /\ start.config.hwid
          /\ start' = [start EXCEPT !.at = "routing"]
          /\ UNCHANGED profiles
       \/ /\ ~start.config.hwid
          /\ start' = [start EXCEPT !.at = "routing", !.config.hwid = TRUE]
          /\ profiles' = Serialized(start'.config)
       \/ /\ ~start.config.hwid
          /\ start' = [at |-> "blocked", config |-> Profiles("none")]
          /\ UNCHANGED profiles
    /\ UNCHANGED <<routing, archived, command, commands, overlapped>>

\* load_routing_at, then forget_legacy_regions; connecting is blocked without it.
LoadRouting ==
    /\ start.at = "routing"
    /\ \/ /\ routing.is = "none"
          /\ routing' = ForNewFile(start.config)
          /\ start' = [at |-> "services", config |-> Serialized(start.config)]
       \/ /\ routing.is \in {"none", "bad"}
          /\ start' = [at |-> "on", config |-> Serialized(start.config)]
          /\ UNCHANGED routing
       \/ /\ routing.is = "ok"
          /\ start' = [at |-> "services", config |-> Serialized(start.config)]
          /\ UNCHANGED routing
    /\ UNCHANGED <<profiles, archived, command, commands, overlapped>>

\* Seeded fault: profiles.json drops the overrides before routing.json has them.
MoveServiceRoutes_ProfilesFirst ==
    /\ start.at = "services"
    /\ \/ start' = [start EXCEPT !.at = "on"] /\ UNCHANGED profiles
       \/ /\ start.config.services
          /\ profiles' = [start.config EXCEPT !.services = FALSE]
          /\ start' = [at |-> "on", config |-> profiles']
    /\ UNCHANGED <<routing, archived, command, commands, overlapped>>

\* move_service_routes_at: update_routing_at comes first, either may fail.
MoveServiceRoutes ==
    /\ start.at = "services"
    /\ \/ start' = [start EXCEPT !.at = "on"] /\ UNCHANGED routing
       \/ /\ start.config.services /\ routing.is = "ok"
          /\ routing' = AdoptServiceRoutes(routing)
          /\ start' = [start EXCEPT !.at = "moved"]
    /\ UNCHANGED <<profiles, archived, command, commands, overlapped>>
SaveMoved ==
    /\ start.at = "moved"
    /\ start' = [at |-> "on", config |-> [start.config EXCEPT !.services = FALSE]]
    /\ profiles' \in {profiles, start'.config}
    /\ UNCHANGED <<routing, archived, command, commands, overlapped>>

\* commit_geo_region, update_routing_at: the tour's region adds its modes.
AddRegionModes ==
    /\ start.at = "on" /\ routing.is = "ok"
    /\ \E r \in Regions : routing' = [routing EXCEPT !.regions = @ \cup {r}]
    /\ UNCHANGED <<profiles, archived, start, command, commands, overlapped>>

\* commit_routing_mode, SaveConfig
SelectMode ==
    /\ start.at = "on" /\ routing.is = "ok"
    /\ \E mode \in {Global, Work} \cup {Mode(r) : r \in Regions} :
        /\ Declares(routing, mode)
        /\ start' = [start EXCEPT !.config.mode = mode]
        /\ profiles' = start'.config
    /\ UNCHANGED <<routing, archived, command, commands, overlapped>>

\* The daemon ends, or crashes in its start.
Stop ==
    /\ start # NoStart
    /\ start' = NoStart
    /\ UNCHANGED <<profiles, routing, archived, command, commands, overlapped>>
-----------------------------------------------------------------------------
(* kvn config reset and recover.                                           *)

\* settle_mode
Settled(config, r) ==
    IF config.is = "none" \/ r.is # "ok" \/ Declares(r, config.mode) THEN config
    ELSE [config EXCEPT !.mode = Global]

\* prepare: the configuration of the file that replaces profiles.json, if any,
\* the new routing, and whether that is of --routing <regions>.  A reset asks.
Prepare(source, newRouting, byRegions, asks) ==
    LET replaces == source.is # "none"
        config == IF replaces THEN Migrated(source) ELSE Migrated(profiles)
        kept == IF byRegions THEN [config EXCEPT !.services = FALSE] ELSE config
        settled == Settled(kept, IF newRouting.is # "none" THEN newRouting
                                 ELSE IF routing.is # "none" THEN routing
                                 ELSE ForNewFile(kept))
    IN  /\ config.is # "bad"
        /\ command.at = "none" /\ start = NoStart
        /\ commands < MaxCommands
        /\ commands' = commands + 1
        /\ command' = [at |-> "prepared", routing |-> newRouting, asks |-> asks,
                       profiles |-> IF replaces \/ settled # config THEN Serialized(settled)
                                    ELSE Profiles("none")]
        /\ UNCHANGED <<profiles, routing, archived, start, overlapped>>

\* run_reset: --profiles, --routing <regions> or both
Reset ==
    \E both \in BOOLEAN, regions \in SUBSET Regions \ {{}} :
        \/ Prepare(Profiles("new"), IF both THEN Routing(regions) ELSE NoRouting, both, TRUE)
        \/ Prepare(Profiles("none"), Routing(regions), TRUE, TRUE)

\* run_recover: --profiles <file>, --routing <file> or both, from valid files
Recover ==
    LET Saved(kinds) == {f \in archived : f.is \in kinds} IN
    \/ \E p \in Saved({"old", "new"}) : Prepare(p, NoRouting, FALSE, FALSE)
    \/ \E r \in Saved({"ok"}) : Prepare(Profiles("none"), r, FALSE, FALSE)
    \/ \E p \in Saved({"old", "new"}), r \in Saved({"ok"}) : Prepare(p, r, FALSE, FALSE)

\* Seeded fault: profiles.json is archived only when --profiles replaces it.
ToArchive_Replaced == IF command.routing.is # "none" THEN {routing} ELSE {profiles}

\* archive_current of each file that is written
ToArchive ==
    {f \in (IF command.profiles.is # "none" THEN {profiles} ELSE {})
             \cup (IF command.routing.is # "none" THEN {routing} ELSE {}) : f.is # "none"}

\* apply, after the answer; a reset checks again that no daemon runs.
Archive ==
    /\ command.at = "prepared"
    /\ command.asks => start = NoStart
    /\ archived' = archived \cup ToArchive
    /\ command' = [command EXCEPT !.at = "routing"]
    /\ overlapped' = (overlapped \/ start # NoStart)
    /\ UNCHANGED <<profiles, routing, start, commands>>

\* routing.json is written first; a write that fails ends the command.
WriteRouting ==
    /\ command.at = "routing"
    /\ \/ /\ routing' = IF command.routing.is = "none" THEN routing ELSE command.routing
          /\ command' = [command EXCEPT !.at = "profiles"]
       \/ command.routing.is # "none" /\ command' = NoCommand /\ UNCHANGED routing
    /\ UNCHANGED <<profiles, archived, start, commands, overlapped>>
WriteProfiles ==
    /\ command.at = "profiles"
    /\ profiles' \in {profiles, IF command.profiles.is = "none" THEN profiles ELSE command.profiles}
    /\ command' = NoCommand
    /\ UNCHANGED <<routing, archived, start, commands, overlapped>>

\* The command is interrupted, or the answer is no.
Interrupted ==
    /\ command.at # "none"
    /\ command' = NoCommand
    /\ UNCHANGED <<profiles, routing, archived, start, commands, overlapped>>
-----------------------------------------------------------------------------
Next ==
    \/ Load \/ SaveMigrated \/ EnsureHwid \/ LoadRouting \/ MoveServiceRoutes \/ SaveMoved
    \/ AddRegionModes \/ SelectMode \/ Stop
    \/ Reset \/ Recover \/ Archive \/ WriteRouting \/ WriteProfiles \/ Interrupted

Spec == Init /\ [][Next]_vars
-----------------------------------------------------------------------------
(***************************************************************************)
(* No start loses the service overrides of an old version: whatever write  *)
(* fails and wherever the start is cut, they are in profiles.json or among *)
(* the rules of routing.json afterwards, unless it overlapped a command    *)
(* (move_service_routes_at).                                               *)
(***************************************************************************)
OverridesAreMoved ==
    command.at \in {"none", "prepared"} /\ ~overlapped /\ (profiles.services \/ routing.services)
     => profiles'.services \/ routing'.services

(***************************************************************************)
(* A file that a migration, a reset or a recovery replaces or adjusts is   *)
(* in the recovery directory, unless a daemon started while a command      *)
(* wrote its files (load_config_at, apply).                                *)
(***************************************************************************)
ReplacedFileIsKept ==
    /\ profiles' # profiles /\ profiles.is # "none" /\ ~overlapped
         /\ (profiles.is = "old" \/ command.at = "profiles")
         => profiles \in archived'
    /\ routing' # routing /\ routing.is # "none" /\ ~overlapped /\ command.at = "routing"
         => routing \in archived'

(***************************************************************************)
(* routing.json, when a start creates it, has the modes of every region    *)
(* that the migrated profiles.json had used.                               *)
(***************************************************************************)
UsedRegionsAreKept ==
    \A p \in archived :
        p.is = "old" /\ commands = 0 /\ routing.is = "ok" => p.used \subseteq routing.regions
=============================================================================
