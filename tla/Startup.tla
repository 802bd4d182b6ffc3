------------------------------ MODULE Startup ------------------------------
(***************************************************************************)
(* The rest of main: server_create and sniffer_create acquire one thing    *)
(* after the other, each step may fail, and sniffer_destroy gives back what *)
(* the fields of struct sniffer say is there.  `res' counts what is held,  *)
(* `fields' are the fields that are not NULL.  What happens while the      *)
(* server runs is the subject of Lifecycle.                                *)
(***************************************************************************)
EXTENDS Options

VARIABLES res, fields, fallback
startupVars == <<res, fields, fallback>>
vars == <<optionVars, startupVars>>

Copies == {"dev", "filter", "syn_tab", "requests"}
\* What a field that is not NULL stands for.
Behind(f) ==
  CASE f = "bpf" -> {"bpf", "code"} [] f = "dumper" -> {"dumper", "dump"} [] OTHER -> {f}
Resources == Copies \cup {"server", "sniffer", "lock", "file", "name", "pcap", "bpf",
                          "code", "dumper", "dump", "lua"}

StartupInit ==
  /\ OptionsInit
  /\ res = [r \in Resources |-> 0]
  /\ fields = {}
  /\ fallback = FALSE     \* is the device one of first_capture_device

Change(got, given) ==
  res' = [r \in Resources |-> res[r] + (IF r \in got THEN 1 ELSE 0)
                                     - (IF r \in given THEN 1 ELSE 0)]

\* A step of main at `at': to pc, holding `got' in addition and `given' no more.
Step(at, pc, got, given) ==
  /\ mainPc = at /\ Goto(pc)
  /\ Change(got, given)

SameOptions == UNCHANGED <<i, opts, live, oom>>
Same == SameOptions /\ UNCHANGED <<fields, fallback>>
\* The step also stores what it acquired in a field.
Keep(f) == fields' = fields \cup {f} /\ SameOptions /\ UNCHANGED fallback

-----------------------------------------------------------------------------
(* server_create and sniffer_create *)

CreateServer ==
  \/ Step("create", "calloc", {"server"}, {}) /\ Same
  \/ mainPc = "create" /\ Exit(1) /\ UNCHANGED startupVars

CallocSniffer ==
  \/ Step("calloc", "copy", {"sniffer"}, {}) /\ Same
  \/ Step("calloc", "server_error", {}, {}) /\ Same

Copy ==
  \E got \in SUBSET Copies :
    /\ mainPc = "copy" /\ opts.dev # NULL
    /\ Step("copy", IF got = Copies THEN "lock" ELSE "error", got, {})
    /\ fields' = got
    /\ SameOptions /\ UNCHANGED fallback

\* strdup(NULL): an -i whose own strdup had failed.
CopyCrashes == mainPc = "copy" /\ opts.dev = NULL /\ Step("copy", "crash", {}, {}) /\ Same

InitLock ==
  \/ Step("lock", "open", {"lock"}, {}) /\ Keep("lock")
  \/ Step("lock", "error", {}, {}) /\ Same

-----------------------------------------------------------------------------
(* sniffer_offline and sniffer_online *)

OpenFile ==
  /\ mainPc = "open" /\ opts.offline_file # NULL
  /\ \/ Step("open", "read", {"file"}, {}) \/ Step("open", "error", {}, {})
  /\ Same

\* Mutant: the file stays open when it is no capture.
ReadLeaks == Step("read", "error", {}, {}) /\ Same

ReadFails == Step("read", "error", {}, {"file"}) /\ Same

\* From here on the file belongs to the pcap handle.
ReadFile == Step("read", "opened", {"pcap"}, {"file"}) /\ Same

OpenDevice ==
  /\ mainPc = "open" /\ opts.offline_file = NULL
  /\ \/ Step("open", "activate", {"pcap"}, {}) \/ Step("open", "no_device", {}, {})
  /\ Same

Activate ==
  \/ Step("activate", IF fallback THEN "replace" ELSE "opened", {}, {}) /\ Same
  \/ Step("activate", "no_device", {}, {"pcap"}) /\ Same

\* Only the device "any" has a replacement, the first one that is not loopback.
first_capture_device ==
  /\ mainPc = "no_device" /\ ~fallback /\ opts.dev = "any"
  /\ Step("no_device", "open", {"name"}, {})
  /\ fallback' = TRUE
  /\ SameOptions /\ UNCHANGED fields

NoDevice ==
  /\ mainPc = "no_device" /\ ~fallback
  /\ Step("no_device", "error", {}, {}) /\ Same

SecondFails ==
  /\ mainPc = "no_device" /\ fallback
  /\ Step("no_device", "replace", {}, {}) /\ Same

\* Mutant: the name in the options is not freed.
NameKept == live["dev"]

OldNameFreed == Released("dev")

\* Both names become the replacement's, whether it could be opened or not.  The
\* copy in struct sniffer is not checked.
ReplaceName ==
  \E copied \in BOOLEAN :
    /\ Step("replace", IF res["pcap"] = 1 THEN "opened" ELSE "error",
            IF copied THEN {"dev"} ELSE {}, {"dev", "name"})
    /\ opts' = [opts EXCEPT !.dev = "replacement"]
    /\ live' = [live EXCEPT !["dev"] = OldNameFreed + 1]
    /\ fields' = IF copied THEN fields ELSE fields \ {"dev"}
    /\ UNCHANGED <<i, oom, fallback>>

KeepPcap == Step("opened", "compile", {}, {}) /\ Keep("pcap")

-----------------------------------------------------------------------------
(* sniffer_compile, dumper_create and lua_state_create *)

NoFilter == mainPc = "compile" /\ opts.filter = <<>> /\ Step("compile", "dump", {}, {}) /\ Same

AllocProgram ==
  /\ mainPc = "compile" /\ opts.filter # <<>>
  /\ \/ Step("compile", "code", {"bpf"}, {}) \/ Step("compile", "error", {}, {})
  /\ Same

Compile ==
  /\ \/ Step("code", "setfilter", {"code"}, {}) \/ Step("code", "error", {}, {"bpf"})
  /\ Same

SetFilter ==
  \/ Step("setfilter", "dump", {}, {}) /\ Keep("bpf")
  \/ Step("setfilter", "error", {}, {"bpf", "code"}) /\ Same

NoDump == mainPc = "dump" /\ opts.save_file = NULL /\ Step("dump", "script", {}, {}) /\ Same

AllocDumper ==
  /\ mainPc = "dump" /\ opts.save_file # NULL
  /\ \/ Step("dump", "dump_open", {"dumper"}, {}) \/ Step("dump", "error", {}, {})
  /\ Same

OpenDump ==
  \/ Step("dump_open", "script", {"dump"}, {}) /\ Keep("dumper")
  \/ Step("dump_open", "error", {}, {"dumper"}) /\ Same

NoScript == mainPc = "script" /\ opts.script = NULL /\ Step("script", "created", {}, {}) /\ Same

\* When luaL_newstate has no memory, luaL_openlibs gets NULL.
NewState ==
  /\ mainPc = "script" /\ opts.script # NULL
  /\ \/ Step("script", "dofile", {"lua"}, {}) \/ Step("script", "crash", {}, {})
  /\ Same

\* The script is missing, fails, or defines no function `process': the new
\* state is not closed.
ScriptFails == Step("dofile", "error", {}, {}) /\ Same

ScriptLoaded == Step("dofile", "created", {}, {}) /\ Keep("lua")

-----------------------------------------------------------------------------
(* The ends of the server *)

Spawn ==
  /\ \/ Step("created", "run", {}, {})
     \/ Step("created", "failed", {}, {}) /\ opts.protocol # "raw"
  /\ Same

Stop == Step("run", "stopped", {}, {}) /\ Same

Destroyed == (UNION {Behind(f) : f \in fields}) \cup {"sniffer"}

\* `error' is the label of sniffer_create, the others are server_destroy.
sniffer_destroy ==
  \E at \in {"error", "failed", "stopped"} :
    /\ Step(at, IF at = "stopped" THEN "server_done" ELSE "server_error", {}, Destroyed)
    /\ fields' = {}
    /\ SameOptions /\ UNCHANGED fallback

server_destroy ==
  /\ mainPc \in {"server_error", "server_done"}
  /\ Change({}, {"server"})
  /\ \/ mainPc = "server_done" /\ Exit(0)
     \/ Exit(1)
  /\ UNCHANGED <<fields, fallback>>

Next ==
  \/ Parse /\ UNCHANGED startupVars
  \/ CreateServer \/ CallocSniffer \/ Copy \/ CopyCrashes \/ InitLock
  \/ OpenFile \/ ReadFails \/ ReadFile \/ OpenDevice \/ Activate
  \/ first_capture_device \/ NoDevice \/ SecondFails \/ ReplaceName \/ KeepPcap
  \/ NoFilter \/ AllocProgram \/ Compile \/ SetFilter
  \/ NoDump \/ AllocDumper \/ OpenDump \/ NoScript \/ NewState \/ ScriptFails \/ ScriptLoaded
  \/ Spawn \/ Stop \/ sniffer_destroy \/ server_destroy

Spec == StartupInit /\ [][Next]_vars

-----------------------------------------------------------------------------
(* Properties *)

\* A field of struct sniffer that is not NULL stands for something acquired once
\* and not given back, and the options own their strings, in every state of
\* every failure: sniffer_destroy, which goes by the fields, and free_options
\* close or free nothing twice, although sniffer_create replaces the device's
\* name in the options of its caller.
OwnedOnce ==
  /\ OptionsOwned
  /\ \A r \in Resources : res[r] \in {0, 1}
  /\ \A f \in fields : \A r \in Behind(f) : res[r] = 1

\* Whichever step failed, main leaves nothing behind when it returns, but for
\* the Lua state of a script that could not be loaded.
ExitReleasesAll ==
  mainPc = "exit" =>
    /\ \A r \in Resources \ {"lua"} : res[r] = 0
    /\ \A f \in DOMAIN live : live[f] = 0
    /\ res["lua"] = 1 => status = 1 /\ "-S" \in Range(argv)
=============================================================================
