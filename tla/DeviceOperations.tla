-------------------------- MODULE DeviceOperations --------------------------
(***************************************************************************)
(* internal/ops: the tools that change the Android device by running its   *)
(* commands (android_system.go, android_apps.go, package_session.go,       *)
(* android_root.go, android_device.go, over android_helpers.go).           *)
(*                                                                         *)
(* What a handler does once its arguments are parsed is a plan: commands,  *)
(* readbacks and steps of its own, in the order of the code, with the ways *)
(* each may jump or return.  Callers run their plans a step at a time over *)
(* the device they share, and nothing locks it.                            *)
(*                                                                         *)
(* The device is a set of tokens per cell: a setting holds its value, a    *)
(* list (packages, role holders, sessions) its members, a missing file     *)
(* nothing.  A command that a variant runs may report success or failure,  *)
(* each with or without having had its effect: exit codes of Android's     *)
(* commands promise no more, which is why the code reads back.             *)
(***************************************************************************)
EXTENDS Integers, Sequences, Functions, TLC

CONSTANTS
    Callers       \* goroutines that execute a request; bound: one request each

----------------------------------------------------------------------------
(* Steps of plans.                                                         *)

\* One effect of a command: the tokens a cell holds afterwards are what was
\* kept of it, without `drop`, with `add`.
Effect(cell, keep, add, drop) == [cell |-> cell, keep |-> keep, add |-> add, drop |-> drop]
Set(cell, v)    == {Effect(cell, "nothing", {v}, {})}
Clear(cell)     == {Effect(cell, "nothing", {}, {})}
Join(cell, t)   == {Effect(cell, "cell", {t}, {})}
Leave(cell, t)  == {Effect(cell, "cell", {}, {t})}

\* What a readback is compared with, and what a request asks for.  A readback
\* that is not exact searches the printed text (strings.Contains).
Test(cell, how, v, exact) == [cell |-> cell, how |-> how, v |-> v, exact |-> exact]
Is(cell, v)       == Test(cell, "is", {v}, TRUE)
Gone(cell)        == Test(cell, "is", {}, TRUE)
Has(cell, t)      == Test(cell, "has", {t}, TRUE)
Lacks(cell, t)    == Test(cell, "lacks", {t}, TRUE)
Prints(cell, t)   == Test(cell, "has", {t}, FALSE)
Omits(cell, t)    == Test(cell, "lacks", {t}, FALSE)
Exists(cell)      == Test(cell, "some", {}, TRUE)
Readable(cell)    == Test(cell, "any", {}, TRUE)
Follows(cell)     == Test(cell, "follows", {}, TRUE)

\* A check reads a cell back and compares it with a test, or with what effects
\* would have written.  `next` and `orElse` are jumps, to be taken when the step succeeds or fails;
\* a jump of 0 answers `code`.  `unread` says whether a readback that fails
\* counts as passed, `background` whether the step ignores a cancellation.
Step(kind, variants, test, code) ==
    [kind |-> kind, variants |-> variants, test |-> test, code |-> code, next |-> 1,
     orElse |-> 0, unread |-> FALSE, background |-> FALSE]
NoTest == Readable("none")

Run(effects)         == Step("run", <<effects>>, NoTest, "failed")
RunEither(e1, e2)    == Step("run", <<e1, e2>>, NoTest, "failed")
Run2(effects)        == RunEither(effects, effects)
Check(test)          == Step("check", <<>>, test, "verify_failed")
CheckWritten(effects) == Step("check", <<effects>>, NoTest, "verify_failed")
CheckUnread(test)    == [Check(test) EXCEPT !.unread = TRUE]
Remember(effects)    == Step("remember", <<effects>>, NoTest, "failed")
Own(effects)         == Step("own", <<effects>>, NoTest, "failed")
Local                == Own({})
Parse                == Step("parse", <<{}>>, NoTest, "failed")
Argument             == Step("own", <<{}>>, NoTest, "invalid")
Then(s, k)           == [s EXCEPT !.next = k]
Otherwise(s, k)      == [s EXCEPT !.orElse = k]
Answering(s, code)   == [s EXCEPT !.code = code]
Whatever(s)          == Otherwise(s, s.next)

EffectsOf(steps) == UNION {UNION {s.variants[i] : i \in DOMAIN s.variants} : s \in Range(steps)}

\* A plan: its steps, what the request asks for, the cells its commands change,
\* and whether the answer's message says that it was verified.
Plan(steps, goals) ==
    [steps |-> steps, goals |-> goals, cells |-> {e.cell : e \in EffectsOf(steps)}, claims |-> FALSE]
Claiming(steps, goals) == [Plan(steps, goals) EXCEPT !.claims = TRUE]
Query                 == Plan(<<Check(NoTest)>>, {})

----------------------------------------------------------------------------
(* Helpers of android_helpers.go, as the steps they run.                   *)

\* Mutant of settingsPutVerified: the value is not read back.
settingsPutUnread(key, v) == <<Run2(Set(key, v))>>

settingsPutVerified(key, v) == <<Run2(Set(key, v)), CheckWritten(Set(key, v))>>
settingsDeleteVerified(key) == <<Run2(Clear(key)), CheckWritten(Clear(key))>>
PutSetting(key, v) == Claiming(settingsPutVerified(key, v), {Is(key, v)})

\* Three settings one after the other; the first that fails ends the request.
Animation ==
    Claiming(settingsPutVerified("window_scale", "v") \o settingsPutVerified("transition_scale", "v")
               \o settingsPutVerified("animator_scale", "v"),
             {Is("window_scale", "v"), Is("transition_scale", "v"), Is("animator_scale", "v")})

----------------------------------------------------------------------------
(* The tools, by tool and action.  An action that reads is a Query.        *)

\* init services are controlled through a property and read back through
\* another; a restart is a stop and a start, of which the start is read back.
InitService(commands, state) ==
    Claiming(commands \o <<Check(Is("init.svc", state))>>, {Is("init.svc", state)})

serviceOperation ==
    [app_start    |-> Plan(<<Run(Set("app_service", "running"))>>, {}),
     app_stop     |-> Plan(<<Run(Set("app_service", "stopped"))>>, {}),
     binder_call  |-> Plan(<<Run(Set("binder", "called"))>>, {}),
     list         |-> Query,
     status       |-> Query,
     init_start   |-> InitService(<<Run(Set("init.svc", "running"))>>, "running"),
     init_stop    |-> InitService(<<Run(Set("init.svc", "stopped"))>>, "stopped"),
     init_restart |-> InitService(<<Run(Set("init.svc", "stopped")), Run(Set("init.svc", "running"))>>,
                                  "running")]

propertyOperation ==
    [list   |-> Query,
     get    |-> Query,
     set    |-> Claiming(<<Run(Set("property", "v")), Check(Is("property", "v"))>>, {Is("property", "v")}),
     delete |-> Claiming(<<Run(Clear("property")), Check(Gone("property"))>>, {Gone("property")})]

settingOperation ==
    [list   |-> Query,
     get    |-> Query,
     put    |-> PutSetting("setting", "v"),
     delete |-> Claiming(settingsDeleteVerified("setting"), {Gone("setting")})]

displayOperation ==
    [get        |-> Query,
     brightness |-> PutSetting("brightness", "v"),
     timeout    |-> PutSetting("screen_off", "v"),
     rotation   |-> Claiming(settingsPutVerified("auto_rotation", "off") \o settingsPutVerified("rotation", "v"),
                             {Is("auto_rotation", "off"), Is("rotation", "v")}),
     dark_mode  |-> Claiming(<<Run(Set("night", "yes")), Check(Prints("night", "yes"))>>, {Is("night", "yes")}),
     animation  |-> Animation,
     size       |-> Plan(<<Run(Set("wm_size", "v")), Check(Readable("wm_size"))>>, {Is("wm_size", "v")}),
     density    |-> Plan(<<Run(Set("wm_density", "v")), Check(Readable("wm_density"))>>,
                         {Is("wm_density", "v")})]

audioOperation ==
    [get        |-> Query,
     set_volume |-> Plan(<<Run2(Set("volume", "v")), Check(Readable("volume"))>>, {Is("volume", "v")}),
     mute       |-> Plan(<<Run2(Set("mute", "on"))>>, {Is("mute", "on")}),
     route      |-> Query]

\* Airplane mode falls back to its setting and a broadcast when the command
\* fails, whatever the command did, and reads the setting back either way.
\* Private DNS sets the mode before it looks for the host's name.
connectivityOperation ==
    [status      |-> Query,
     wifi        |-> Plan(<<Run(Set("wifi", "on")), Check(Readable("wifi"))>>, {Is("wifi", "on")}),
     mobile_data |-> Plan(<<Run(Set("data", "on")), Whatever(Check(Readable("data")))>>, {Is("data", "on")}),
     airplane    |-> Claiming(<<Then(Otherwise(Run(Set("airplane", "on")), 1), 4)>>
                                \o settingsPutVerified("airplane", "on")
                                \o <<Run(Set("airplane_broadcast", "on")), Check(Is("airplane", "on"))>>,
                              {Is("airplane", "on")}),
     airplane_off |-> Claiming(<<Then(Otherwise(Run(Set("airplane", "off")), 1), 4)>>
                                \o settingsPutVerified("airplane", "off")
                                \o <<Run(Set("airplane_broadcast", "off")), Check(Is("airplane", "off"))>>,
                              {Is("airplane", "off")}),
     bluetooth   |-> Plan(<<Run(Set("bluetooth", "on")), Check(Readable("bluetooth"))>>,
                          {Is("bluetooth", "on")}),
     nfc         |-> Plan(<<Run(Set("nfc", "on")), Whatever(Check(Readable("nfc")))>>, {Is("nfc", "on")}),
     proxy_get   |-> Query,
     proxy_set   |-> PutSetting("proxy", "host"),
     proxy_clear |-> PutSetting("proxy", "none"),
     private_dns |-> PutSetting("dns_mode", "off"),
     private_dns_host |->
         Claiming(settingsPutVerified("dns_mode", "hostname") \o <<Argument>>
                    \o settingsPutVerified("dns_host", "host"),
                  {Is("dns_mode", "hostname"), Is("dns_host", "host")})]

localeTimeOperation ==
    [get         |-> Query,
     timezone    |-> Claiming(<<Run2(Set("timezone", "v")), Check(Is("timezone", "v"))>>, {Is("timezone", "v")}),
     time_format |-> PutSetting("time_format", "v"),
     date_time   |-> Claiming(<<Run2(Set("clock", "v")), Check(Is("clock", "v"))>>, {Is("clock", "v")}),
     locale      |-> Plan(<<Run(Set("locale", "v")), Check(Is("locale", "v"))>>, {Is("locale", "v")})]

inputMethodOperation ==
    [list    |-> Query,
     current |-> Query,
     enable  |-> Plan(<<Run(Join("ime", "it"))>>, {Has("ime", "it")}),
     disable |-> Plan(<<Run(Leave("ime", "it"))>>, {Lacks("ime", "it")}),
     set     |-> Plan(<<Run(Set("default_ime", "it")), Check(Is("default_ime", "it"))>>,
                      {Is("default_ime", "it")})]

\* The battery whitelist is searched for the package's name: the name of
\* another package may contain it.
appPolicyOperation ==
    [get             |-> Plan(<<Whatever(Check(NoTest)), Whatever(Check(NoTest))>>, {}),
     standby_get     |-> Query,
     standby_bucket  |-> Plan(<<Run(Set("bucket", "v")), Whatever(Check(NoTest))>>, {Is("bucket", "v")}),
     battery_list    |-> Query,
     battery_allow   |-> Claiming(<<Run(Join("whitelist", "it")), Check(Prints("whitelist", "it"))>>,
                                  {Has("whitelist", "it")}),
     battery_disallow |-> Claiming(<<Run(Leave("whitelist", "it")), Check(Omits("whitelist", "it"))>>,
                                   {Lacks("whitelist", "it")}),
     background      |-> Claiming(<<Run(Set("background", "ignore")), Check(Prints("background", "ignore"))>>,
                                  {Is("background", "ignore")})]

\* set tries the home activity when the role command is not there, whatever
\* the role is, and reads back the role of the current user, whatever the user is.
defaultAppOperation ==
    [get      |-> Query,
     set      |-> Claiming(<<RunEither(Join("role", "it"), Set("home", "it")), Check(Prints("role", "it"))>>,
                           {Has("role", "it")}),
     set_user |-> Claiming(<<RunEither(Join("role_other", "it"), Set("home", "it")),
                             Check(Prints("role", "it"))>>,
                           {Has("role_other", "it")}),
     clear    |-> Plan(<<Run(Clear("role")), Whatever(Check(NoTest))>>, {Gone("role")})]

notificationOperation ==
    [status |-> Query,
     allow  |-> Plan(<<Then(Otherwise(Run(Set("post_permission", "granted")), 1), 2),
                       Run(Set("post_appop", "allow"))>>, {}),
     deny   |-> Plan(<<Then(Otherwise(Run(Set("post_permission", "revoked")), 1), 2),
                       Run(Set("post_appop", "ignore"))>>, {}),
     allow_listener    |-> Claiming(<<Run(Join("listeners", "it")), Check(Prints("listeners", "it"))>>,
                                    {Has("listeners", "it")}),
     disallow_listener |-> Claiming(<<Run(Leave("listeners", "it")), Check(Omits("listeners", "it"))>>,
                                    {Lacks("listeners", "it")})]

\* The list of services is read before anything else, and a read that fails is
\* an empty list; the list is then written as read, with or without the
\* caller's component, and after it the flag, on when that list has members.
WrittenAsRead == {Effect("accessibility", "list", {}, {})}
FlagAsRead    == {Effect("accessibility_flag", "flag", {}, {})}

Accessibility(change, goal) ==
    Claiming(<<Remember(change), Run2(WrittenAsRead), CheckWritten(WrittenAsRead),
               Run2(FlagAsRead), CheckWritten(FlagAsRead)>>,
             {goal, Follows("accessibility_flag")})

accessibilityOperation(c) ==
    [get     |-> Plan(<<Remember(Join("accessibility", c)), Whatever(Check(NoTest))>>, {}),
     enable  |-> Accessibility(Join("accessibility", c), Has("accessibility", c)),
     disable |-> Accessibility(Leave("accessibility", c), Lacks("accessibility", c))]

developerOperation ==
    [get           |-> Query,
     adb           |-> PutSetting("adb", "on"),
     adb_off       |-> PutSetting("adb", "off"),
     stay_awake    |-> PutSetting("stay_awake", "on"),
     animation     |-> Animation,
     mock_location |-> Claiming(<<Run2(Set("mock", "allow")), Check(Prints("mock", "allow"))>>,
                                {Is("mock", "allow")}),
     set           |-> PutSetting("adb", "v")]

\* An install keeps a session of the package manager: created, written and
\* committed, and abandoned by a deferred call, which no cancellation reaches,
\* unless the commit succeeded.  An answer that names no session leaves it.
\* Mutant of Abandon: it runs under the request's context.
AbandonHindered(c) == Answering(Then(Run2(Leave("sessions", c)), 0), "failed")

Abandon(c) == [Answering(Then(Run2(Leave("sessions", c)), 0), "failed") EXCEPT !.background = TRUE]

installAPKSession(c) ==
    <<Run2(Join("sessions", c)), Parse,
      Otherwise(Local, 3), Otherwise(Run2({}), 2),
      Then(Otherwise(Run2(Leave("sessions", c) \cup Join("packages", "it")), 1), 2),
      Abandon(c)>>

\* After the commit the handler looks for Success in what it printed.
appInstall(c) ==
    [install        |-> Plan(<<Local>> \o installAPKSession(c) \o <<Local>>, {Has("packages", "it")}),
     install_named  |-> Claiming(<<Local>> \o installAPKSession(c)
                                   \o <<Local, Check(Has("packages", "it"))>>,
                                 {Has("packages", "it")}),
     xapk           |-> Claiming(<<Local, Local>> \o installAPKSession(c)
                                   \o <<Local, Check(Has("packages", "it")),
                                        Answering(Own(Set("obb", "copied")), "partial")>>,
                                 {Has("packages", "it"), Is("obb", "copied")}),
     session_create  |-> Plan(<<Run2(Join("sessions", c)), Parse>>, {}),
     session_write   |-> Plan(<<Local, Run2({})>>, {}),
     session_commit  |-> Plan(<<Run2(Leave("sessions", c) \cup Join("packages", "it"))>>, {}),
     session_abandon |-> Plan(<<Run2(Leave("sessions", c))>>, {})]

\* The cache is cleared directory by directory, and what fails is collected.
Collected(s) == Answering(Whatever(s), "partial")

clearAppCache ==
    Claiming(<<Check(NoTest), Run(Set("app", "stopped")), Collected(Own(Clear("cache"))),
               Collected(Own(Clear("cache_de")))>>,
             {Gone("cache"), Gone("cache_de")})

\* An uninstall whose output lacks Success is answered as it came, and one
\* whose readback fails counts as gone.
appManage ==
    [uninstall  |-> Claiming(<<Run(Leave("packages", "it")), Answering(Local, "unverified"),
                               CheckUnread(Lacks("packages", "it"))>>, {Lacks("packages", "it")}),
     enable     |-> Plan(<<Run(Set("component", "enabled")), Check(NoTest)>>, {Is("component", "enabled")}),
     disable    |-> Plan(<<Run(Set("component", "disabled")), Check(NoTest)>>, {Is("component", "disabled")}),
     start      |-> Plan(<<Run(Set("app", "started"))>>, {}),
     stop       |-> Plan(<<Run(Set("app", "stopped"))>>, {}),
     clear_data |-> Plan(<<Run(Clear("app_data")), Answering(Local, "verify_failed")>>, {}),
     user_install |-> Plan(<<Run2(Join("packages_user", "it"))>>, {}),
     user_remove  |-> Plan(<<Run(Leave("packages_user", "it"))>>, {}),
     clear_cache  |-> clearAppCache]

\* A revocation counts as verified when the check of the permission fails.
appPermission ==
    [list      |-> Query,
     grant     |-> Claiming(<<Run(Set("permission", "granted")), Check(Is("permission", "granted"))>>,
                            {Is("permission", "granted")}),
     revoke    |-> Claiming(<<Run(Set("permission", "denied")), CheckUnread(Is("permission", "denied"))>>,
                            {Is("permission", "denied")}),
     appop_get |-> Query,
     appop_set |-> Claiming(<<Run(Set("appop", "v")), Check(Prints("appop", "v"))>>, {Is("appop", "v")})]

appExport ==
    [apk    |-> Plan(<<Check(NoTest), Local, Own(Set("base_apk", "copy"))>>, {Is("base_apk", "copy")}),
     splits |-> Plan(<<Check(NoTest), Local, Own(Set("base_apk", "copy")), Own(Set("split_apk", "copy"))>>,
                     {Is("base_apk", "copy"), Is("split_apk", "copy")}),
     bundle |-> Plan(<<Check(NoTest), Local, Own(Set("bundle", "zip")), Check(Exists("bundle"))>>,
                     {Is("bundle", "zip")})]

\* Modules are marked by files.  A restore over a module removes it before it
\* copies the candidate, which it has read by then.
rootModuleOperation ==
    [list    |-> Query,
     info    |-> Query,
     log     |-> Query,
     enable  |-> Plan(<<Local, Own(Clear("disable")), CheckUnread(Gone("disable"))>>, {Gone("disable")}),
     disable |-> Plan(<<Local, Own(Set("disable", "marker")), Check(Exists("disable"))>>, {Exists("disable")}),
     delete  |-> Plan(<<Local, Own(Set("remove", "marker")), Check(Exists("remove"))>>, {Exists("remove")}),
     install |-> Plan(<<Local, Run(Set("module_update", "zip"))>>, {}),
     backup  |-> Plan(<<Local, Own(Set("module_backup", "tar"))>>, {Is("module_backup", "tar")}),
     restore |-> Plan(<<Local, Local, Answering(Check(Gone("module")), "failed"),
                        Own(Set("module", "restored")), Check(Exists("module"))>>, {Is("module", "restored")}),
     restore_over |-> Plan(<<Local, Local, Otherwise(Check(Exists("module")), 2), Own(Clear("module")),
                             Own(Set("module", "restored")), Check(Exists("module"))>>,
                           {Is("module", "restored")}),
     action  |-> Plan(<<Local, Run(Set("action", "ran"))>>, {})]

\* remove unmounts the target before it looks for its staged copy, which may be
\* absent, unreadable or a directory.  A missing copy is an error only if
\* nothing was mounted, and one that cannot be looked at always is.
systemlessOperation ==
    [probe   |-> Query,
     list    |-> Query,
     verify  |-> Query,
     bind_mount    |-> Claiming(<<Run2(Join("mounts", "it")), Check(Has("mounts", "it"))>>,
                                {Has("mounts", "it")}),
     overlay_mount |-> Claiming(<<Run(Join("mounts", "it")), Check(Has("mounts", "it"))>>,
                                {Has("mounts", "it")}),
     unmount |-> Plan(<<Run(Leave("mounts", "it")), CheckUnread(Lacks("mounts", "it"))>>,
                      {Lacks("mounts", "it")}),
     stage   |-> Plan(<<Own(Set("staged", "copy")), Check(Exists("staged"))>>, {Exists("staged")}),
     remove  |-> Plan(<<Otherwise(Check(Has("mounts", "it")), 4), Run(Leave("mounts", "it")),
                        CheckUnread(Lacks("mounts", "it")),
                        Then(Otherwise(Check(Gone("staged")), 1), 4),
                        Answering(Check(Exists("staged")), "failed"),
                        Argument, Own(Clear("staged"))>>, {Lacks("mounts", "it"), Gone("staged")})]

\* The command is left to a helper that runs it two seconds after the answer.
powerOperation ==
    [status |-> Query,
     wake   |-> Plan(<<Run(Set("screen", "on"))>>, {}),
     sleep  |-> Plan(<<Run(Set("screen", "off"))>>, {}),
     reboot |-> Plan(<<Own(Set("power", "pending"))>>, {})]

\* Mutant of screenOperation: the options are checked when the file is there.
screenOperationLate ==
    [screenshot |-> Query, wake |-> Query, sleep |-> Query, size |-> Query,
     record     |-> Plan(<<Local, Run(Set("mp4", "video")), Argument>>, {Exists("mp4")})]

screenOperation ==
    [screenshot |-> Plan(<<Local, Run(Set("png", "image")), Check(Exists("png"))>>, {Exists("png")}),
     record     |-> Plan(<<Argument, Local, Run(Set("mp4", "video")), Check(Exists("mp4"))>>, {Exists("mp4")}),
     wake       |-> Plan(<<Run(Set("screen", "on"))>>, {}),
     sleep      |-> Plan(<<Run(Set("screen", "off"))>>, {}),
     size       |-> Query]

\* What is left of the requests that act on the device and check nothing.
inputOperation   == [input |-> Plan(<<Run(Set("input", "event"))>>, {})]
logOperation     == [logcat |-> Query, clear |-> Plan(<<Run(Clear("logcat"))>>, {})]
processOperation == [list |-> Query, signal |-> Plan(<<Own(Set("process", "signalled"))>>, {}),
                     renice |-> Plan(<<Own(Set("priority", "v"))>>, {})]

----------------------------------------------------------------------------

\* executeSync: the handler of each tool.
executeSync ==
    [c \in Callers |->
        [service |-> serviceOperation, property |-> propertyOperation, setting |-> settingOperation,
         display |-> displayOperation, audio |-> audioOperation, connectivity |-> connectivityOperation,
         locale_time |-> localeTimeOperation, input_method |-> inputMethodOperation,
         app_policy |-> appPolicyOperation, default_app |-> defaultAppOperation,
         notification |-> notificationOperation, accessibility |-> accessibilityOperation(c),
         developer |-> developerOperation, app_install |-> appInstall(c), app_manage |-> appManage,
         app_permission |-> appPermission, app_export |-> appExport, root_module |-> rootModuleOperation,
         systemless |-> systemlessOperation, power |-> powerOperation, screen |-> screenOperation,
         input |-> inputOperation, log |-> logOperation, process |-> processOperation]]

Tools    == DOMAIN executeSync[CHOOSE c \in Callers : TRUE]
Requests == UNION {{<<t, a>> : a \in DOMAIN executeSync[c][t]} : c \in Callers, t \in Tools}
Plans    == [c \in Callers |-> [q \in Requests |-> executeSync[c][q[1]][q[2]]]]

AllEffects == UNION {EffectsOf(Plans[c][q].steps) : c \in Callers, q \in Requests}
Tokens     == (UNION {e.add : e \in AllEffects}) \cup {"old", "it.longer"}
Cells      == {e.cell : e \in AllEffects} \cup {"none"}

----------------------------------------------------------------------------

VARIABLES
    device,    \* the tokens of each cell
    call,      \* per caller: the request and its plan, where that is, and its answer
    history    \* per caller: what the properties need to know of its past

vars == <<device, call, history>>

Answers == {"none", "done", "unverified", "failed", "verify_failed", "partial", "invalid", "refused"}

Idle == [request |-> <<"none", "none">>, plan |-> Plan(<<>>, {}), pc |-> 0, variant |-> 1, list |-> {}, partial |-> FALSE,
         cancelled |-> FALSE, answer |-> "none"]

\* met: the goals that held at some instant of the call; before: the device when
\* it began; alone: no other call ran meanwhile; blind: it took a list it could
\* not read for an empty one; adrift: its session was lost to a failed command,
\* an answer without an identifier or an abandonment that failed.
NoHistory == [met |-> {}, before |-> <<>>, alone |-> TRUE, blind |-> FALSE, adrift |-> FALSE,
              changed |-> FALSE]

\* The states a device may be in: its lists are empty, or hold the package (or
\* component, or mount) that requests name, or one whose name contains it.
ListCells == {"whitelist", "role", "role_other", "listeners", "accessibility", "packages", "mounts", "ime"}
FileCells == {"staged", "module", "png", "sessions", "disable", "remove"}
Devices ==
    {[x \in Cells |-> CASE x \in ListCells -> members
                       [] x \in FileCells -> {}
                       [] x = "accessibility_flag" -> {IF members = {} THEN "off" ELSE "on"}
                       [] x \notin ListCells \cup FileCells \cup {"accessibility_flag"} -> {"old"}] :
       members \in {{}, {"it"}, {"it.longer"}}}

Init ==
    /\ device \in Devices
    /\ call = [c \in Callers |-> Idle]
    /\ history = [c \in Callers |-> NoHistory]

Running(c) == call[c].pc > 0 /\ call[c].answer = "none"
PlanOf(c)  == call[c].plan
StepOf(c)  == PlanOf(c).steps[call[c].pc]

\* strings.Contains over what a cell prints.
Printed(tokens) == IF "it.longer" \in tokens THEN tokens \cup {"it"} ELSE tokens

Holds(t, d) ==
    LET tokens == IF t.exact THEN d[t.cell] ELSE Printed(d[t.cell]) IN
    \/ t.how = "is" /\ tokens = t.v
    \/ t.how = "has" /\ t.v \subseteq tokens
    \/ t.how = "lacks" /\ t.v \cap tokens = {}
    \/ t.how = "some" /\ tokens # {}
    \/ t.how = "any"
    \/ t.how = "follows" /\ (tokens = {"on"} <=> d["accessibility"] # {})

\* What an effect makes of a cell.
Written(c, e, d) ==
    LET base == CASE e.keep = "nothing" -> {}
                  [] e.keep = "cell" -> d[e.cell]
                  [] e.keep = "list" -> call[c].list
                  [] e.keep = "flag" -> IF call[c].list = {} THEN {"off"} ELSE {"on"}
    IN  (base \ e.drop) \cup e.add

Apply(c, effects, d) ==
    [x \in DOMAIN d |-> IF \E e \in effects : e.cell = x
                       THEN Written(c, CHOOSE e \in effects : e.cell = x, d) ELSE d[x]]

\* The device becomes d by a step of caller c: what the running calls see of
\* it is recorded, and what c learns of its own call.
Become(c, d, blind, adrift) ==
    /\ device' = d
    /\ history' = [o \in Callers |->
           IF Running(o)
           THEN [history[o] EXCEPT !.met = @ \cup {g \in PlanOf(o).goals : Holds(g, d)},
                                   !.changed = @ \/ (o = c /\ d # device),
                                   !.blind = @ \/ (o = c /\ blind),
                                   !.adrift = @ \/ (o = c /\ adrift)]
           ELSE history[o]]

----------------------------------------------------------------------------

\* Caller c after a step that ended well or not.
Advance(c, ok) ==
    LET s    == StepOf(c)
        jump == IF ok THEN s.next ELSE s.orElse
        over == call[c].pc + jump > Len(PlanOf(c).steps)
        part == call[c].partial \/ (~ok /\ jump # 0 /\ s.code = "partial")
    IN  call' = [call EXCEPT ![c].pc = @ + jump, ![c].variant = 1, ![c].partial = part,
                             ![c].answer = CASE jump = 0 -> s.code
                                             [] jump # 0 /\ over -> IF part THEN "partial" ELSE "done"
                                             [] jump # 0 /\ ~over -> "none"]

At(c, kind) == Running(c) /\ StepOf(c).kind = kind

\* A cancelled context ends every command that is not run for the deferred call.
Hindered(c) == call[c].cancelled /\ ~StepOf(c).background

\* A request starts: its arguments or the identity of the process are refused,
\* or its plan begins.  Bounds: two requests share a cell, since those that
\* share none do not disturb each other, and a device with members in its lists
\* gets requests about lists.
Call(c, q) ==
    /\ call[c] = Idle
    /\ LET plan   == Plans[c][q]
           others == {o \in Callers : call[o] # Idle}
       IN  /\ plan.cells \cap ListCells = {} => device["accessibility_flag"] # {"on"} \/ others # {}
           /\ \A o \in others : plan.cells \cap PlanOf(o).cells # {}
           /\ \E answer \in {"none", "invalid", "refused"} :
                call' = [call EXCEPT ![c] = [Idle EXCEPT !.request = q, !.plan = plan, !.pc = 1, !.answer = answer]]
           /\ history' = [o \in Callers |->
                  IF o = c
                  THEN [NoHistory EXCEPT !.met = {g \in plan.goals : Holds(g, device)},
                                         !.before = [x \in plan.cells |-> device[x]],
                                         !.alone = \A x \in Callers : ~Running(x)]
                  ELSE [history[o] EXCEPT !.alone = @ /\ ~Running(o)]]
    /\ UNCHANGED device

\* The context of a call ends.  Bounds: of one call, and of one that has a step
\* which ignores it; the steps of the others may fail without it as well.
Cancel(c) ==
    /\ Running(c) /\ \A o \in Callers : ~call[o].cancelled
    /\ \E s \in Range(PlanOf(c).steps) : s.background
    /\ call' = [call EXCEPT ![c].cancelled = TRUE]
    /\ UNCHANGED <<device, history>>

\* Mutant of RunVariant: what reads like a missing command is always followed.
RunVariantOn(c) ==
    /\ At(c, "run")
    /\ \E report \in {"ok", "unavailable"} :
         IF report = "unavailable" THEN call' = [call EXCEPT ![c].variant = @ + 1] ELSE Advance(c, TRUE)
    /\ Become(c, Apply(c, StepOf(c).variants[call[c].variant], device), FALSE, FALSE)

\* runFirstAvailable: one variant of a command.  The next one is tried when the
\* command is not there, or failed and printed what reads like it.
RunVariant(c) ==
    /\ At(c, "run")
    /\ LET s       == StepOf(c)
           effects == s.variants[call[c].variant]
           last    == call[c].variant = Len(s.variants)
       IN  \E took \in BOOLEAN, report \in {"ok", "failed", "unavailable"} :
             /\ Hindered(c) => report = "failed"
             /\ took => effects # {}
             /\ Become(c, IF took THEN Apply(c, effects, device) ELSE device, FALSE,
                       \/ \E e \in effects : e.cell = "sessions" /\ took # (report = "ok")
                       \/ s.background /\ ~took)
             /\ IF report = "unavailable" /\ ~last
                THEN call' = [call EXCEPT ![c].variant = @ + 1]
                ELSE Advance(c, report = "ok")

\* A readback: a command that may fail, or a look at a file.
Readback(c) ==
    /\ At(c, "check")
    /\ LET s == StepOf(c)
           seen == /\ Holds(s.test, device)
                   /\ s.variants # <<>> => Apply(c, s.variants[1], device) = device
       IN  \E readable \in BOOLEAN :
             /\ Hindered(c) => ~readable
             /\ Advance(c, IF readable THEN seen ELSE s.unread)
    /\ Become(c, device, FALSE, FALSE)

\* Mutant of ReadList: the list starts empty.
ReadListEmpty(c) ==
    /\ At(c, "remember")
    /\ call' = [call EXCEPT ![c].pc = @ + 1, ![c].list = UNION {e.add : e \in StepOf(c).variants[1]}]
    /\ Become(c, device, FALSE, FALSE)

\* The list of accessibility services, changed in the caller's memory.
ReadList(c) ==
    /\ At(c, "remember")
    /\ LET s == StepOf(c)
           e == CHOOSE x \in s.variants[1] : TRUE
       IN  \E readable \in BOOLEAN :
             /\ Hindered(c) => ~readable
             /\ call' = [call EXCEPT ![c].pc = @ + 1,
                    ![c].list = ((IF readable THEN device[e.cell] ELSE {}) \ e.drop) \cup e.add]
             /\ Become(c, device, ~readable, FALSE)

\* Files and values of the process itself: what succeeds has its effect, what
\* fails may have had it in part.
OwnStep(c) ==
    /\ At(c, "own") \/ At(c, "parse")
    /\ LET s == StepOf(c)
       IN  \E ok, took \in BOOLEAN :
             /\ ok => took
             /\ Become(c, IF took THEN Apply(c, s.variants[1], device) ELSE device, FALSE,
                       s.kind = "parse" /\ ~ok)
             /\ Advance(c, ok)

CallerStep(c) == RunVariant(c) \/ Readback(c) \/ ReadList(c) \/ OwnStep(c)

Next ==
    \E c \in Callers :
        \/ \E q \in Requests : Call(c, q)
        \/ Cancel(c)
        \/ CallerStep(c)

Spec == Init /\ [][Next]_vars

----------------------------------------------------------------------------

TypeOK ==
    /\ \A x \in Cells : device[x] \subseteq Tokens
    /\ \A c \in Callers :
         /\ call[c].request \in Requests \cup {Idle.request}
         /\ call[c].answer \in Answers
         /\ Running(c) => /\ call[c].pc \in DOMAIN PlanOf(c).steps
                          /\ StepOf(c).kind = "run" => call[c].variant \in DOMAIN StepOf(c).variants

\* The requests whose readback does not read what they ask for: a name found
\* within another name, another user's role, a failed read taken for absence.
Misread == {<<"default_app", "set">>, <<"default_app", "set_user">>, <<"app_policy", "battery_allow">>,
            <<"notification", "allow_listener">>, <<"app_manage", "uninstall">>, <<"app_permission", "revoke">>}

\* The fallback of airplane mode also broadcasts, and an application is stopped
\* before its cache is cleared.
Sideways == {<<"connectivity", "airplane">>, <<"connectivity", "airplane_off">>, <<"app_manage", "clear_cache">>}

Verified(c) == call[c].answer = "done" /\ PlanOf(c).claims

\* An answer that says "modified and verified" is right: everything the request
\* asked for, in each of its cells, was there at some instant of the call, even
\* when another request undid it before the answer (settingsPutVerified and the
\* readbacks of the handlers).
VerifiedHeld ==
    \A c \in Callers : Verified(c) /\ call[c].request \notin Misread => PlanOf(c).goals \subseteq history[c].met

\* A verified request that ran alone leaves the device as it asked and changes
\* nothing else: no command of a plan undoes an earlier one, and what was in a
\* list stays there, unless the handler could not read that list.
Asked(g, tokens, after) ==
    CASE g.how = "is"    -> g.v
      [] g.how = "has"   -> tokens \cup g.v
      [] g.how = "lacks" -> tokens \ g.v
      [] g.how \in {"some", "any", "follows"} -> after

OnlyWhatWasAsked ==
    [][\A c \in Callers :
         (Running(c) /\ Verified(c)' /\ history[c].alone /\ ~history'[c].blind /\ ~history'[c].adrift
             /\ call[c].request \notin Misread \cup Sideways)
         => /\ \A g \in PlanOf(c).goals : Holds(g, device')
            /\ \A x \in DOMAIN history[c].before :
                 LET asked == {g \in PlanOf(c).goals : g.cell = x} IN
                 device'[x] = IF asked = {} THEN history[c].before[x]
                              ELSE Asked(CHOOSE g \in asked : TRUE, history[c].before[x], device'[x])]_vars

\* An install that has been answered left no session of the package manager
\* open, cancelled or not, unless a command on the session went astray
\* (the deferred abandonPackageSession of installAPKSession).
SessionSettled ==
    \A c \in Callers :
        (call[c].request[1] = "app_install" /\ call[c].request[2] \in {"install", "install_named", "xapk"}
            /\ call[c].answer # "none")
        => (c \in device["sessions"] => history[c].adrift)

\* A request refused for its arguments has changed nothing: what can be
\* checked is checked before the first command, but for the host's name of
\* private DNS and the directory that a Systemless target may be.
Late == {<<"connectivity", "private_dns_host">>, <<"systemless", "remove">>}

RefusedChangedNothing ==
    \A c \in Callers : call[c].answer = "invalid" /\ call[c].request \notin Late => ~history[c].changed
=============================================================================
