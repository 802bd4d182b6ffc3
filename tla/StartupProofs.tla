--------------------------- MODULE StartupProofs ---------------------------
(***************************************************************************)
(* Proofs about Options and Startup, for every command line: whichever     *)
(* step fails, what is held has one owner and is given back once, and the  *)
(* options are what the command line says.                                 *)
(***************************************************************************)
EXTENDS Startup, WellFoundedInduction, TLAPS

-----------------------------------------------------------------------------
(* The inductive invariant *)

\* struct options exists from init_options to free_options, and its fields own
\* their strings.  A script comes from an -S.
OptInv ==
  /\ argv \in Argvs /\ i \in Nat \ {0}
  /\ opts = NULL <=> mainPc \in {"start", "exit"}
  /\ opts # NULL => opts \in OptionRecords
  /\ live \in [Strings \cup {"opts"} -> Int]
  /\ OptionsOwned
  /\ opts # NULL /\ opts.script # NULL => "-S" \in Range(argv)

\* Before server_create, and after the server is gone.
Early == {"start", "parse", "parsed", "create"}
NoSniffer == Early \cup {"calloc", "server_error", "server_done", "exit"}

\* What is held and no field of struct sniffer says so.
Loose(r) ==
  \/ r = "server" /\ mainPc \notin Early \cup {"exit"}
  \/ r = "sniffer" /\ mainPc \notin NoSniffer
  \/ r = "file" /\ mainPc = "read"
  \/ r = "pcap" /\ mainPc \in {"activate", "opened"}
  \/ r = "name" /\ fallback /\ mainPc \in {"open", "activate", "no_device", "replace"}
  \/ r = "bpf" /\ mainPc \in {"code", "setfilter"}
  \/ r = "code" /\ mainPc = "setfilter"
  \/ r = "dumper" /\ mainPc = "dump_open"
  \/ r = "lua" /\ mainPc = "dofile"

\* Where the next device may still be tried, or the Lua state be lost.
Uncertain(r) ==
  \/ r = "pcap" /\ mainPc = "replace"
  \/ r = "lua" /\ mainPc \in {"error", "server_error", "exit"}

\* What the fields stand for.
Fielded(r) ==
  \/ r \in fields
  \/ r = "code" /\ "bpf" \in fields
  \/ r = "dump" /\ "dumper" \in fields

\* Everything held is held once, by a field or by the running step.
ResInv ==
  /\ res \in [Resources -> {0, 1}]
  /\ \A r \in Resources :
       /\ Fielded(r) \/ Loose(r) => res[r] = 1
       /\ res[r] = 1 => Fielded(r) \/ Loose(r) \/ Uncertain(r)
  /\ \A r \in Resources : ~(Fielded(r) /\ (Loose(r) \/ Uncertain(r)))

\* Which fields are set at which step.
FieldsInv ==
  /\ fields \subseteq Copies \cup {"lock", "pcap", "bpf", "dumper", "lua"}
  /\ mainPc \in NoSniffer \cup {"copy"} => fields = {}
  /\ mainPc = "lock" => fields = Copies
  /\ mainPc \in {"open", "read", "activate", "no_device", "replace"} =>
       fields = Copies \cup {"lock"}
  /\ "pcap" \in fields =>
       mainPc \in {"compile", "code", "setfilter", "dump", "dump_open", "script",
                   "dofile", "created", "run", "failed", "stopped", "error", "crash"}
  /\ "bpf" \in fields =>
       mainPc \in {"dump", "dump_open", "script", "dofile", "created", "run", "failed",
                   "stopped", "error", "crash"}
  /\ "dumper" \in fields =>
       mainPc \in {"script", "dofile", "created", "run", "failed", "stopped", "error",
                   "crash"}
  /\ "lua" \in fields => mainPc \in {"created", "run", "failed", "stopped"}
  /\ fallback => mainPc \notin NoSniffer \ {"server_error", "server_done", "exit"}
                 /\ mainPc \notin {"copy", "lock"}
  /\ {fallback} \subseteq BOOLEAN
  /\ mainPc = "replace" => fallback
  /\ mainPc = "read" => ~fallback
  /\ mainPc \in {"activate", "no_device"} \/ (mainPc = "open" /\ fallback) =>
       opts.offline_file = NULL

\* A Lua state comes from an -S, and one that nobody closes was lost on the way
\* to an error.
LuaInv ==
  /\ res["lua"] = 1 => "-S" \in Range(argv)
  /\ mainPc = "exit" /\ res["lua"] = 1 => status = 1

StartupInv == OptInv /\ ResInv /\ FieldsInv /\ LuaInv

-----------------------------------------------------------------------------
(* main from server_create on *)

\* What sniffer_destroy gives back.
LEMMA DestroyedFacts ==
  ASSUME FieldsInv
  PROVE  \A r \in Resources : r \in Destroyed <=> Fielded(r) \/ r = "sniffer"
<1>1. \A f \in fields : Behind(f) = IF f = "bpf" THEN {"bpf", "code"}
                                    ELSE IF f = "dumper" THEN {"dumper", "dump"}
                                    ELSE {f}
  BY DEF Behind
<1>2. \A r : r \in Destroyed <=> (\E f \in fields : r \in Behind(f)) \/ r = "sniffer"
  BY Zenon DEF Destroyed
<1>3. fields \subseteq Copies \cup {"lock", "pcap", "bpf", "dumper", "lua"}
  BY DEF FieldsInv
<1>4. ASSUME NEW r \in Resources
      PROVE  (\E f \in fields : r \in Behind(f)) <=> Fielded(r)
  <2>1. ASSUME NEW f \in fields, r \in Behind(f) PROVE Fielded(r)
    BY <1>1, <2>1 DEF Fielded
  <2>2. ASSUME Fielded(r) PROVE \E f \in fields : r \in Behind(f)
    BY <1>1, <2>2 DEF Fielded
  <2> QED BY <2>1, <2>2
<1> QED BY <1>2, <1>4

\* The part of the invariant that is not about the options.
HeldInv == ResInv /\ FieldsInv /\ LuaInv

\* Each step of main, taken or failed, keeps what is held in order.
LEMMA HeldStep ==
  ASSUME StartupInv, Next, ~Parse
  PROVE  HeldInv'
<1> USE DEF StartupInv, HeldInv, ResInv, FieldsInv, LuaInv, Resources, Loose, Uncertain,
        Fielded, Early, NoSniffer, Step, Change, Goto, Same, SameOptions
<1>1. CASE CreateServer
  BY <1>1 DEF CreateServer, Exit, startupVars
<1>2. CASE CallocSniffer
  BY <1>2 DEF CallocSniffer
<1>3. CASE Copy
  BY <1>3 DEF Copy, Copies
<1>4. CASE CopyCrashes
  BY <1>4 DEF CopyCrashes
<1>5. CASE InitLock
  BY <1>5 DEF InitLock, Keep, Copies
<1>6. CASE OpenFile
  BY <1>6 DEF OpenFile, Copies
<1>7. CASE ReadFails
  BY <1>7 DEF ReadFails, Copies
<1>8. CASE ReadFile
  BY <1>8 DEF ReadFile, Copies
<1>9. CASE OpenDevice
  BY <1>9 DEF OpenDevice, Copies
<1>10. CASE Activate
  BY <1>10 DEF Activate, Copies
<1>11. CASE first_capture_device
  BY <1>11 DEF first_capture_device, Copies
<1>12. CASE NoDevice
  BY <1>12 DEF NoDevice, Copies
<1>13. CASE SecondFails
  BY <1>13 DEF SecondFails, Copies
<1>14. CASE KeepPcap
  BY <1>14 DEF KeepPcap, Keep
<1>15. CASE NoFilter
  BY <1>15 DEF NoFilter
<1>16. CASE AllocProgram
  BY <1>16 DEF AllocProgram
<1>17. CASE Compile
  <2>1. mainPc = "code" /\ res["code"] = 0
    BY <1>17 DEF Compile, Copies
  <2> QED BY <1>17, <2>1 DEF Compile
<1>18. CASE SetFilter
  BY <1>18 DEF SetFilter, Keep
<1>19. CASE NoDump
  BY <1>19 DEF NoDump
<1>20. CASE AllocDumper
  BY <1>20 DEF AllocDumper
<1>21. CASE OpenDump
  <2>1. mainPc = "dump_open" /\ res["dump"] = 0
    BY <1>21 DEF OpenDump, Copies
  <2> QED BY <1>21, <2>1 DEF OpenDump, Keep
<1>22. CASE NoScript
  BY <1>22 DEF NoScript
<1>23. CASE NewState
  BY <1>23 DEF NewState, OptInv
<1>24. CASE ScriptFails
  BY <1>24 DEF ScriptFails
<1>25. CASE ScriptLoaded
  BY <1>25 DEF ScriptLoaded, Keep
<1>26. CASE Spawn
  BY <1>26 DEF Spawn
<1>27. CASE Stop
  BY <1>27 DEF Stop
<1>28. CASE ReplaceName
  BY <1>28 DEF ReplaceName, Copies
<1>29. CASE sniffer_destroy
  BY <1>29, DestroyedFacts DEF sniffer_destroy
<1>30. CASE server_destroy
  BY <1>30 DEF server_destroy, Exit
<1> QED BY <1>1, <1>2, <1>3, <1>4, <1>5, <1>6, <1>7, <1>8, <1>9, <1>10, <1>11, <1>12, <1>13, <1>14, <1>15, <1>16, <1>17, <1>18, <1>19, <1>20, <1>21, <1>22, <1>23, <1>24, <1>25, <1>26, <1>27, <1>28, <1>29, <1>30 DEF Next

-----------------------------------------------------------------------------
(* The options *)

\* Assigning a field of struct options.
LEMMA OptionUpdate ==
  ASSUME NEW o \in OptionRecords
  PROVE  /\ \A f \in {"dev", "offline_file", "save_file", "script"},
               s \in Texts \cup {NULL} : [o EXCEPT ![f] = s] \in OptionRecords
         /\ \A s \in Seq(Texts) \cup {NULL} : [o EXCEPT !["filter"] = s] \in OptionRecords
         /\ \A f \in {"snaplen", "buf_size", "threshold", "stats_port"}, n \in Int :
              [o EXCEPT ![f] = n] \in OptionRecords
         /\ \A f \in {"ascii", "print_usage", "print_version"} :
              [o EXCEPT ![f] = 1] \in OptionRecords
         /\ \A p \in Protocols : [o EXCEPT !["protocol"] = p] \in OptionRecords
<1> USE DEF OptionRecords
<1>1. ASSUME NEW f \in {"dev", "offline_file", "save_file", "script"},
             NEW s \in Texts \cup {NULL}
      PROVE  [o EXCEPT ![f] = s] \in OptionRecords
  OBVIOUS
<1>2. ASSUME NEW s \in Seq(Texts) \cup {NULL}
      PROVE  [o EXCEPT !["filter"] = s] \in OptionRecords
  OBVIOUS
<1>3. ASSUME NEW f \in {"snaplen", "buf_size", "threshold", "stats_port"}, NEW n \in Int
      PROVE  [o EXCEPT ![f] = n] \in OptionRecords
  OBVIOUS
<1>4. ASSUME NEW f \in {"ascii", "print_usage", "print_version"}
      PROVE  [o EXCEPT ![f] = 1] \in OptionRecords
  OBVIOUS
<1>5. ASSUME NEW p \in Protocols
      PROVE  [o EXCEPT !["protocol"] = p] \in OptionRecords
  OBVIOUS
<1> QED BY <1>1, <1>2, <1>3, <1>4, <1>5

\* The argument at hand, and the one behind it.
LEMMA Arguments ==
  ASSUME OptInv, More
  PROVE  /\ opts # NULL /\ opts \in OptionRecords
         /\ i + 1 \in Nat \ {0} /\ i + 2 \in Nat \ {0}
         /\ argv[i] \in Texts /\ argv[i] \in Range(argv)
         /\ ~lastarg => argv[i + 1] \in Texts /\ Atoi[argv[i + 1]] \in Int
<1>1. argv \in Seq(STRING) /\ i \in Nat \ {0} /\ i <= Len(argv)
  BY OptionsAssumption DEF OptInv, More
<1>2. i \in DOMAIN argv /\ (~lastarg => i + 1 \in DOMAIN argv)
  BY <1>1 DEF lastarg
<1>3. \A j \in DOMAIN argv : Atoi[argv[j]] \in Int
  BY OptionsAssumption DEF OptInv
<1>4. \A j \in DOMAIN argv : argv[j] \in Range(argv) /\ argv[j] \in Texts
  BY DEF Range, OptInv, Texts
<1> QED BY <1>1, <1>2, <1>3, <1>4 DEF OptInv, More

\* Freeing a string and storing another one, or NULL, keeps the books.
LEMMA ReplaceOwned ==
  ASSUME OptInv, opts # NULL, NEW f \in Strings, NEW s, s # NULL,
         NEW ok \in BOOLEAN,
         opts' = [opts EXCEPT ![f] = IF ok THEN s ELSE NULL], opts' \in OptionRecords,
         live' = [live EXCEPT ![f] = Released(f) + (IF ok THEN 1 ELSE 0)]
  PROVE  live' \in [Strings \cup {"opts"} -> Int] /\ OptionsOwned'
<1>1. /\ live \in [Strings \cup {"opts"} -> Int] /\ OptionsOwned
      /\ opts \in OptionRecords /\ DOMAIN opts = DOMAIN opts'
  BY DEF OptInv, OptionRecords
<1>2. Released(f) = 0
  BY <1>1 DEF OptionsOwned, Released, Owns
<1>3. f # "opts" /\ f \in DOMAIN opts
  BY <1>1 DEF Strings, OptionRecords
<1>4. opts' # NULL
  BY PointerAssumption
<1>5. /\ live'[f] = IF ok THEN 1 ELSE 0
      /\ \A x \in Strings \cup {"opts"} : x # f => live'[x] = live[x]
      /\ opts'[f] = IF ok THEN s ELSE NULL
      /\ \A x \in Strings : x # f => opts'[x] = opts[x]
  BY <1>1, <1>2, <1>3 DEF Strings, OptionRecords
<1>6. live' \in [Strings \cup {"opts"} -> Int]
  BY <1>1, <1>2
<1> QED BY <1>1, <1>3, <1>4, <1>5, <1>6 DEF OptionsOwned, Owns

\* Assigning a field that is no string, or a string that stays one.
LEMMA SameOwned ==
  ASSUME OptInv, opts # NULL, opts' \in OptionRecords, live' = live,
         \A f \in Strings : Owns(opts[f])' = Owns(opts[f])
  PROVE  live' \in [Strings \cup {"opts"} -> Int] /\ OptionsOwned'
BY PointerAssumption DEF OptInv, OptionsOwned, Owns

\* Every exit of main with the options in hand.
LEMMA ExitOwned ==
  ASSUME OptInv, opts # NULL, NEW code, Exit(code)
  PROVE  OptInv'
<1>1. /\ live \in [Strings \cup {"opts"} -> Int] /\ OptionsOwned
      /\ opts' = NULL /\ mainPc' = "exit" /\ argv' = argv /\ i' = i
      /\ live' = [f \in Strings \cup {"opts"} |->
                    IF f = "opts" THEN live[f] - 1 ELSE Released(f)]
  BY DEF OptInv, Exit, free_options
<1>2. \A f \in Strings \cup {"opts"} : live'[f] = 0
  BY <1>1 DEF OptionsOwned, Owns, Released, Strings
<1>3. live' \in [Strings \cup {"opts"} -> Int]
  BY <1>1, <1>2
<1>4. OptionsOwned'
  BY <1>1, <1>2 DEF OptionsOwned, Owns
<1> QED BY <1>1, <1>3, <1>4 DEF OptInv

\* One iteration of parse_options that goes on, from what it stores.
LEMMA OptInvBy ==
  ASSUME OptInv, argv' = argv, i' \in Nat \ {0}, mainPc' \notin {"start", "exit"},
         opts' \in OptionRecords, live' \in [Strings \cup {"opts"} -> Int], OptionsOwned',
         opts.script' # NULL => "-S" \in Range(argv)
  PROVE  OptInv'
BY PointerAssumption DEF OptInv

\* Every step of parse_options, and of main before server_create.
LEMMA ParseStep ==
  ASSUME OptInv, Parse
  PROVE  OptInv'
<1>1. CASE ParseStart
  <2> PICK ok \in BOOLEAN :
        /\ opts' = init_options(ok)
        /\ live' = [live EXCEPT !["opts"] = 1, !["dev"] = IF ok THEN 1 ELSE 0]
    BY <1>1 DEF ParseStart
  <2>0. "any" \in Texts /\ "any" # NULL
    BY PointerAssumption DEF Texts
  <2>1. opts' \in OptionRecords /\ opts' # NULL
    BY <2>0, PointerAssumption DEF init_options, OptionRecords, Protocols
  <2>2. mainPc' = "parse" /\ argv' = argv /\ i' = i /\ opts = NULL
    BY <1>1 DEF ParseStart, Goto, OptInv
  <2>3. live' \in [Strings \cup {"opts"} -> Int]
    BY DEF OptInv, Strings
  <2>4. \A f \in Strings : live[f] = 0
    BY <2>2 DEF OptInv, OptionsOwned
  <2>5. /\ live'["opts"] = 1 /\ live'["dev"] = IF ok THEN 1 ELSE 0
        /\ \A f \in Strings : f # "dev" => live'[f] = 0
    BY <2>4 DEF OptInv, Strings
  <2>6. /\ opts'["dev"] = IF ok THEN "any" ELSE NULL
        /\ \A f \in Strings : f # "dev" => opts'[f] = NULL
    BY DEF init_options, Strings
  <2>7. OptionsOwned'
    BY <2>0, <2>1, <2>5, <2>6 DEF OptionsOwned, Owns
  <2>8. opts.script' = NULL
    BY DEF init_options
  <2> QED BY <2>1, <2>2, <2>3, <2>7, <2>8, OptInvBy DEF OptInv
<1>2. CASE ParseNoMemory
  BY <1>2 DEF ParseNoMemory, OptInv, OptionsOwned
<1>3. CASE Switch
  <2>1. /\ opts # NULL /\ opts \in OptionRecords /\ i + 1 \in Nat \ {0}
        /\ argv' = argv /\ i' = i + 1 /\ mainPc' = "parse" /\ live' = live
    BY <1>3, Arguments DEF Switch, Goto
  <2> DEFINE f == SwitchField[argv[i]]
  <2>2. f \in {"ascii", "print_usage", "print_version"} /\ opts' = [opts EXCEPT ![f] = 1]
    BY <1>3 DEF Switch, SwitchField
  <2>3. opts' \in OptionRecords
    BY <2>1, <2>2, OptionUpdate
  <2>4. \A g \in Strings : opts'[g] = opts[g]
    BY <2>1, <2>2 DEF Strings, OptionRecords
  <2>5. live' \in [Strings \cup {"opts"} -> Int] /\ OptionsOwned'
    BY <2>1, <2>3, <2>4, SameOwned DEF Owns
  <2>6. opts.script' = opts.script
    BY <2>4 DEF Strings
  <2> QED BY <2>1, <2>3, <2>5, <2>6, OptInvBy DEF OptInv
<1>4. CASE StringOption
  <2>1. /\ opts # NULL /\ opts \in OptionRecords /\ i + 2 \in Nat \ {0}
        /\ argv' = argv /\ i' = i + 2 /\ mainPc' = "parse"
        /\ argv[i] \in Range(argv) /\ argv[i + 1] \in Texts
    BY <1>4, Arguments DEF StringOption, Goto
  <2> DEFINE f == StringField[argv[i]]
  <2> PICK ok \in BOOLEAN : Replace(f, argv[i + 1], ok)
    BY <1>4 DEF StringOption
  <2>2. /\ f \in {"dev", "offline_file", "save_file", "script"} /\ f \in Strings
        /\ f = "script" => argv[i] = "-S"
    BY <1>4 DEF StringOption, StringField, Strings
  <2> HIDE DEF f
  <2>3. /\ opts' = [opts EXCEPT ![f] = IF ok THEN argv[i + 1] ELSE NULL]
        /\ live' = [live EXCEPT ![f] = Released(f) + (IF ok THEN 1 ELSE 0)]
    BY DEF Replace
  <2>4. opts' \in OptionRecords
    BY <2>1, <2>2, <2>3, OptionUpdate
  <2>5. argv[i + 1] # NULL
    BY <2>1, PointerAssumption
  <2>6. live' \in [Strings \cup {"opts"} -> Int] /\ OptionsOwned'
    BY <2>1, <2>2, <2>3, <2>4, <2>5, ReplaceOwned
  <2>7. f # "script" => opts.script' = opts.script
    BY <2>1, <2>3 DEF OptionRecords
  <2> QED BY <2>1, <2>2, <2>4, <2>6, <2>7, OptInvBy DEF OptInv
<1>5. CASE NumberOption
  <2>1. /\ opts # NULL /\ opts \in OptionRecords /\ i + 2 \in Nat \ {0}
        /\ argv' = argv /\ i' = i + 2 /\ mainPc' = "parse" /\ live' = live
        /\ Atoi[argv[i + 1]] \in Int
    BY <1>5, Arguments DEF NumberOption, Goto
  <2> DEFINE f == NumberField[argv[i]]
             n == ReadNumber(argv[i], argv[i + 1])
  <2>2. /\ f \in {"snaplen", "buf_size", "threshold", "stats_port"}
        /\ opts' = [opts EXCEPT ![f] = n]
    BY <1>5 DEF NumberOption, NumberField
  <2>3. n \in Int
    BY <2>1 DEF ReadNumber
  <2> HIDE DEF f, n
  <2>4. opts' \in OptionRecords
    BY <2>1, <2>2, <2>3, OptionUpdate
  <2>5. \A g \in Strings : opts'[g] = opts[g]
    BY <2>1, <2>2 DEF Strings, OptionRecords
  <2>6. live' \in [Strings \cup {"opts"} -> Int] /\ OptionsOwned'
    BY <2>1, <2>4, <2>5, SameOwned DEF Owns
  <2>7. opts.script' = opts.script
    BY <2>5 DEF Strings
  <2> QED BY <2>1, <2>4, <2>6, <2>7, OptInvBy DEF OptInv
<1>6. CASE ProtocolOption
  <2>1. /\ opts # NULL /\ opts \in OptionRecords /\ i + 2 \in Nat \ {0}
        /\ argv' = argv /\ i' = i + 2 /\ mainPc' = "parse" /\ live' = live
        /\ argv[i + 1] \in Protocols
        /\ opts' = [opts EXCEPT !["protocol"] = argv[i + 1]]
    BY <1>6, Arguments DEF ProtocolOption, Goto
  <2>2. opts' \in OptionRecords
    BY <2>1, OptionUpdate
  <2>3. \A g \in Strings : opts'[g] = opts[g]
    BY <2>1 DEF Strings, OptionRecords
  <2>4. live' \in [Strings \cup {"opts"} -> Int] /\ OptionsOwned'
    BY <2>1, <2>2, <2>3, SameOwned DEF Owns
  <2>5. opts.script' = opts.script
    BY <2>3 DEF Strings
  <2> QED BY <2>1, <2>2, <2>4, <2>5, OptInvBy DEF OptInv
<1>7. CASE FirstWord
  <2>1. /\ opts # NULL /\ opts \in OptionRecords /\ i + 1 \in Nat \ {0}
        /\ argv' = argv /\ i' = i + 1 /\ mainPc' = "parse"
        /\ <<argv[i]>> \in Seq(Texts)
    BY <1>7, Arguments DEF FirstWord, Goto
  <2> PICK ok \in BOOLEAN : Replace("filter", <<argv[i]>>, ok)
    BY <1>7 DEF FirstWord
  <2> DEFINE word == <<argv[i]>>
  <2> HIDE DEF word
  <2>2. /\ opts' = [opts EXCEPT !["filter"] = IF ok THEN word ELSE NULL]
        /\ live' = [live EXCEPT !["filter"] = Released("filter") + (IF ok THEN 1 ELSE 0)]
    BY DEF Replace, word
  <2>3. word \in Seq(Texts) /\ word # NULL
    BY <2>1, PointerAssumption DEF word
  <2>4. opts' \in OptionRecords
    BY <2>1, <2>2, <2>3, OptionUpdate
  <2>5. live' \in [Strings \cup {"opts"} -> Int] /\ OptionsOwned'
    BY <2>1, <2>2, <2>3, <2>4, ReplaceOwned DEF Strings
  <2>6. opts.script' = opts.script
    BY <2>1, <2>2 DEF OptionRecords
  <2> QED BY <2>1, <2>4, <2>5, <2>6, OptInvBy DEF OptInv
<1>8. CASE NextWord
  <2>1. /\ opts # NULL /\ opts \in OptionRecords /\ i + 1 \in Nat \ {0}
        /\ argv' = argv /\ i' = i + 1 /\ mainPc' = "parse" /\ live' = live
        /\ argv[i] \in Texts
    BY <1>8, Arguments DEF NextWord, Goto
  <2> DEFINE words == Joined(opts.filter, argv[i])
  <2>2. opts.filter \in Seq(Texts)
    BY <1>8, <2>1 DEF NextWord, OptionRecords
  <2>3. opts' = [opts EXCEPT !["filter"] = words]
    BY <1>8 DEF NextWord
  <2>4. words \in Seq(Texts) /\ words # NULL
    BY <2>1, <2>2, PointerAssumption, SMTT(30) DEF Joined
  <2> HIDE DEF words
  <2>5. opts' \in OptionRecords
    BY <2>1, <2>3, <2>4, OptionUpdate
  <2>6. /\ opts["filter"] # NULL /\ opts'["filter"] # NULL
        /\ \A g \in Strings : g # "filter" => opts'[g] = opts[g]
    BY <1>8, <2>1, <2>3, <2>4 DEF NextWord, Strings, OptionRecords
  <2>7. live' \in [Strings \cup {"opts"} -> Int] /\ OptionsOwned'
    BY <2>1, <2>5, <2>6, SameOwned DEF Owns
  <2>8. opts.script' = opts.script
    BY <2>6 DEF Strings
  <2> QED BY <2>1, <2>5, <2>7, <2>8, OptInvBy DEF OptInv
<1>9. CASE Parsed
  <2>1. /\ opts # NULL /\ opts \in OptionRecords
        /\ argv' = argv /\ i' = i /\ mainPc' = "parsed"
    BY <1>9 DEF Parsed, Goto, OptInv
  <2>2. CASE opts.filter # NULL
    BY <1>9, <2>1, <2>2 DEF Parsed, OptInv, OptionsOwned
  <2>3. CASE opts.filter = NULL
    <3> DEFINE words == <<>>
               ok == TRUE
    <3>1. words \in Seq(Texts)
      OBVIOUS
    <3>7. words # NULL
      BY <3>1, PointerAssumption
    <3>0. ok \in BOOLEAN
      OBVIOUS
    <3>2. Replace("filter", words, ok)
      BY <1>9, <2>3 DEF Parsed
    <3> HIDE DEF words, ok
    <3>3. /\ opts' = [opts EXCEPT !["filter"] = IF ok THEN words ELSE NULL]
          /\ live' = [live EXCEPT !["filter"] = Released("filter") + (IF ok THEN 1 ELSE 0)]
      BY <3>2 DEF Replace
    <3>4. opts' \in OptionRecords
      BY <2>1, <3>1, <3>3, OptionUpdate
    <3>5. live' \in [Strings \cup {"opts"} -> Int] /\ OptionsOwned'
      BY <2>1, <3>0, <3>7, <3>3, <3>4, ReplaceOwned DEF Strings
    <3>6. opts.script' = opts.script
      BY <2>1, <3>3 DEF OptionRecords
    <3> QED BY <2>1, <3>4, <3>5, <3>6, OptInvBy DEF OptInv
  <2> QED BY <2>2, <2>3
<1>10. CASE Invalid \/ OutOfMemory \/ UsageOrVersion \/ NotRoot
  <2>1. opts # NULL /\ \E code \in {0, 1} : Exit(code)
    BY <1>10 DEF Invalid, OutOfMemory, UsageOrVersion, NotRoot, More, OptInv
  <2> QED BY <2>1, ExitOwned
<1>11. CASE Prepare
  <2> DEFINE n == Clamped(opts.snaplen, opts.protocol)
  <2>1. /\ opts # NULL /\ opts \in OptionRecords
        /\ argv' = argv /\ i' = i /\ mainPc' = "create" /\ live' = live
        /\ opts' = [opts EXCEPT !["snaplen"] = n]
    BY <1>11 DEF Prepare, Goto, OptInv
  <2>2. n \in Int
    BY <2>1 DEF Clamped, OptionRecords
  <2> HIDE DEF n
  <2>3. opts' \in OptionRecords
    BY <2>1, <2>2, OptionUpdate
  <2>4. \A g \in Strings : opts'[g] = opts[g]
    BY <2>1 DEF Strings, OptionRecords
  <2>5. live' \in [Strings \cup {"opts"} -> Int] /\ OptionsOwned'
    BY <2>1, <2>3, <2>4, SameOwned DEF Owns
  <2>6. opts.script' = opts.script
    BY <2>4 DEF Strings
  <2> QED BY <2>1, <2>3, <2>5, <2>6, OptInvBy DEF OptInv
<1> QED BY <1>1, <1>2, <1>3, <1>4, <1>5, <1>6, <1>7, <1>8, <1>9, <1>10, <1>11 DEF Parse

\* The steps of main from server_create on leave the options alone, but for the
\* name of the device and the exits.
LEMMA OptionsStep ==
  ASSUME StartupInv, Next, ~Parse
  PROVE  OptInv'
<1> USE DEF StartupInv
<1>1. CASE /\ SameOptions /\ argv' = argv
           /\ mainPc \notin {"start", "exit"} /\ mainPc' \notin {"start", "exit"}
  BY <1>1 DEF SameOptions, OptInv, OptionsOwned
<1>2. CASE mainPc \notin {"start", "exit"} /\ \E code \in {0, 1} : Exit(code)
  BY <1>2, ExitOwned DEF OptInv
<1>3. CASE ReplaceName
  <2> DEFINE name == "replacement"
             ok == TRUE
  <2>1. /\ opts # NULL /\ opts \in OptionRecords
        /\ argv' = argv /\ i' = i /\ mainPc' \in {"opened", "error"}
    BY <1>3 DEF ReplaceName, Step, Goto, OptInv
  <2>2. /\ opts' = [opts EXCEPT !["dev"] = IF ok THEN name ELSE NULL]
        /\ live' = [live EXCEPT !["dev"] = Released("dev") + (IF ok THEN 1 ELSE 0)]
    BY <1>3 DEF ReplaceName, OldNameFreed
  <2>0. ok \in BOOLEAN /\ name \in Texts
    BY DEF Texts
  <2>3. name # NULL
    BY <2>0, PointerAssumption
  <2> HIDE DEF name, ok
  <2>4. opts' \in OptionRecords
    BY <2>0, <2>1, <2>2, OptionUpdate
  <2>5. live' \in [Strings \cup {"opts"} -> Int] /\ OptionsOwned'
    BY <2>0, <2>1, <2>2, <2>3, <2>4, ReplaceOwned DEF Strings
  <2>6. opts.script' = opts.script
    BY <2>1, <2>2 DEF OptionRecords
  <2> QED BY <2>1, <2>4, <2>5, <2>6, OptInvBy DEF OptInv
<1>4. CASE \/ CreateServer \/ CallocSniffer \/ Copy \/ CopyCrashes \/ InitLock
           \/ OpenFile \/ ReadFails \/ ReadFile \/ OpenDevice \/ Activate
           \/ first_capture_device \/ NoDevice \/ SecondFails \/ KeepPcap
  BY <1>1, <1>2, <1>4 DEF CreateServer, CallocSniffer, Copy, CopyCrashes, InitLock,
     OpenFile, ReadFails, ReadFile, OpenDevice, Activate, first_capture_device, NoDevice,
     SecondFails, KeepPcap, Step, Goto, Same, Keep
<1>5. CASE \/ NoFilter \/ AllocProgram \/ Compile \/ SetFilter
           \/ NoDump \/ AllocDumper \/ OpenDump \/ NoScript \/ NewState \/ ScriptFails
           \/ ScriptLoaded \/ Spawn \/ Stop \/ sniffer_destroy \/ server_destroy
  BY <1>1, <1>2, <1>5 DEF NoFilter, AllocProgram, Compile, SetFilter, NoDump, AllocDumper,
     OpenDump, NoScript, NewState, ScriptFails, ScriptLoaded, Spawn, Stop, sniffer_destroy,
     server_destroy, Step, Goto, Same, Keep
<1> QED BY <1>3, <1>4, <1>5 DEF Next

-----------------------------------------------------------------------------
(* The invariant holds, and what follows from it *)

LEMMA InitInv ==
  ASSUME StartupInit
  PROVE  StartupInv
<1> USE DEF StartupInit, OptionsInit
<1>1. OptInv
  BY DEF OptInv, OptionsOwned, Owns, Strings
<1>2. ResInv
  BY DEF ResInv, Fielded, Loose, Uncertain, Early, NoSniffer, Resources
<1>3. FieldsInv
  BY DEF FieldsInv, NoSniffer, Early
<1>4. LuaInv
  BY DEF LuaInv, Resources
<1> QED BY <1>1, <1>2, <1>3, <1>4 DEF StartupInv

LEMMA HeldParse ==
  ASSUME StartupInv, Parse, UNCHANGED startupVars
  PROVE  HeldInv'
<1>1. /\ argv' = argv /\ mainPc \in Early
      /\ mainPc' \in {"parse", "parsed", "create", "exit"}
      /\ UNCHANGED <<res, fields, fallback>>
  BY DEF Parse, ParseStart, ParseNoMemory, Switch, StringOption, NumberOption,
     ProtocolOption, FirstWord, NextWord, Parsed, Invalid, OutOfMemory, UsageOrVersion,
     NotRoot, Prepare, Goto, Exit, More, startupVars, Early
<1>2. /\ fields = {} /\ ~fallback /\ fallback \in BOOLEAN
      /\ res \in [Resources -> {0, 1}] /\ \A r \in Resources : res[r] = 0
  BY <1>1 DEF StartupInv, FieldsInv, ResInv, NoSniffer, Early, Fielded, Loose, Uncertain
<1>3. ResInv'
  BY <1>1, <1>2 DEF ResInv, Fielded, Loose, Uncertain, Early, NoSniffer
<1>4. FieldsInv'
  BY <1>1, <1>2 DEF FieldsInv, Early, NoSniffer
<1>5. LuaInv'
  BY <1>1, <1>2 DEF LuaInv, Resources
<1> QED BY <1>3, <1>4, <1>5 DEF HeldInv

\* Every step of main preserves the invariant.
LEMMA StartupStep ==
  ASSUME StartupInv, [Next]_vars
  PROVE  StartupInv'
<1>1. CASE UNCHANGED vars
  BY <1>1 DEF StartupInv, OptInv, OptionsOwned, ResInv, FieldsInv, LuaInv, Fielded, Loose,
     Uncertain, vars, optionVars, startupVars
<1>2. CASE Next /\ ~Parse
  BY <1>2, OptionsStep, HeldStep DEF StartupInv, HeldInv
<1>3. CASE Parse /\ UNCHANGED startupVars
  BY <1>3, ParseStep, HeldParse DEF StartupInv, HeldInv
<1>4. CASE Parse /\ ~UNCHANGED startupVars /\ Next
  <2>1. mainPc \in {"start", "parse", "parsed"}
    BY <1>4 DEF Parse, ParseStart, ParseNoMemory, Switch, StringOption, NumberOption,
       ProtocolOption, FirstWord, NextWord, Parsed, Invalid, OutOfMemory, UsageOrVersion,
       NotRoot, Prepare, More
  <2> QED BY <1>4, <2>1 DEF Next, CreateServer, CallocSniffer, Copy, CopyCrashes, InitLock,
     OpenFile, ReadFails, ReadFile, OpenDevice, Activate, first_capture_device, NoDevice,
     SecondFails, KeepPcap, NoFilter, AllocProgram, Compile, SetFilter, NoDump, AllocDumper,
     OpenDump, NoScript, NewState, ScriptFails, ScriptLoaded, Spawn, Stop, sniffer_destroy,
     server_destroy, ReplaceName, Step
<1> QED BY <1>1, <1>2, <1>3, <1>4

\* main reaches only states in which everything held has its one owner.
THEOREM StartupInvHolds == Spec => []StartupInv
BY InitInv, StartupStep, PTL DEF Spec

\* OwnedOnce for every command line: whatever fails in parse_options,
\* server_create or sniffer_create, a field that is not NULL stands for something held
\* exactly once, so that sniffer_destroy and free_options free nothing twice.
THEOREM OwnedOnceHolds == Spec => []OwnedOnce
<1>1. ASSUME StartupInv PROVE OwnedOnce
  <2>1. OptionsOwned
    BY <1>1 DEF StartupInv, OptInv
  <2>2. \A r \in Resources : res[r] \in {0, 1}
    BY <1>1 DEF StartupInv, ResInv
  <2>3. ASSUME NEW f \in fields, NEW r \in Behind(f) PROVE res[r] = 1
    <3>1. r \in Resources /\ Fielded(r)
      BY <1>1, <2>3 DEF Behind, Fielded, StartupInv, FieldsInv, Resources, Copies
    <3> QED BY <1>1, <3>1 DEF StartupInv, ResInv
  <2> QED BY <2>1, <2>2, <2>3 DEF OwnedOnce
<1> QED BY <1>1, StartupInvHolds, PTL

\* ExitReleasesAll for every command line: whichever step failed, main gives back
\* every string and everything acquired before it returns; only a Lua state may
\* stay, and then there was an -S and main returns 1.
THEOREM ExitReleasesAllHolds == Spec => []ExitReleasesAll
<1>1. ASSUME StartupInv, mainPc = "exit"
      PROVE  /\ \A r \in Resources \ {"lua"} : res[r] = 0
             /\ \A f \in DOMAIN live : live[f] = 0
             /\ res["lua"] = 1 => status = 1 /\ "-S" \in Range(argv)
  <2>1. fields = {}
    BY <1>1 DEF StartupInv, FieldsInv, NoSniffer
  <2>2. \A r \in Resources \ {"lua"} : res[r] = 0
    BY <1>1, <2>1 DEF StartupInv, ResInv, Fielded, Loose, Uncertain, NoSniffer
  <2>3. \A f \in DOMAIN live : live[f] = 0
    BY <1>1 DEF StartupInv, OptInv, OptionsOwned, Owns
  <2> QED BY <1>1, <2>2, <2>3 DEF StartupInv, LuaInv
<1>2. ASSUME StartupInv PROVE ExitReleasesAll
  BY <1>1, <1>2 DEF ExitReleasesAll
<1> QED BY <1>2, StartupInvHolds, PTL

-----------------------------------------------------------------------------
(* The arguments that options consume *)

\* A non-empty set of numbers has a least one.
LEMMA LeastNat ==
  ASSUME NEW T \in SUBSET Nat, T # {}
  PROVE  \E x \in T : \A y \in T : x <= y
<1> DEFINE R == OpToRel(<, Nat)
<1>1. PICK x \in T : \A y \in T : ~(<<y, x>> \in R)
  <2> HIDE DEF R
  <2>1. IsWellFoundedOn(R, Nat)
    BY NatLessThanWellFounded DEF R
  <2> QED BY <2>1, WFMin
<1>2. ASSUME NEW y \in T PROVE x <= y
  <2>1. ~(<<y, x>> \in OpToRel(<, Nat))
    BY <1>1
  <2>2. x \in Nat /\ y \in Nat
    OBVIOUS
  <2>3. ~(y < x)
    BY <2>1, <2>2 DEF OpToRel
  <2> QED BY <2>2, <2>3
<1> QED BY <1>2

\* The row of options before j begins at k.
RowFrom(k, j) ==
  /\ k \in 1 .. j - 1
  /\ \A m \in k .. j - 1 : argv[m] \in Consuming
  /\ k > 1 => argv[k - 1] \notin Consuming

LEMMA Parity ==
  ASSUME NEW n \in Nat
  PROVE  (n + 1) % 2 = 1 <=> n % 2 # 1
OBVIOUS

LEMMA TakenByRow ==
  ASSUME NEW j \in DOMAIN argv
  PROVE  j \in Taken <=> \E k : RowFrom(k, j) /\ (j - k) % 2 = 1
BY DEF Taken, RowFrom

LEMMA RowUnique ==
  ASSUME NEW j \in Nat, NEW k, NEW l, RowFrom(k, j), RowFrom(l, j)
  PROVE  k = l
<1>1. k \in Nat /\ l \in Nat /\ k < j /\ l < j /\ 1 <= k /\ 1 <= l
  BY DEF RowFrom
<1>2. ~(k < l)
  <2> SUFFICES ASSUME k < l PROVE FALSE
    OBVIOUS
  <2>1. l - 1 \in k .. j - 1 /\ l > 1
    BY <1>1
  <2> QED BY <2>1 DEF RowFrom
<1>3. ~(l < k)
  <2> SUFFICES ASSUME l < k PROVE FALSE
    OBVIOUS
  <2>1. k - 1 \in l .. j - 1 /\ k > 1
    BY <1>1
  <2> QED BY <2>1 DEF RowFrom
<1> QED BY <1>1, <1>2, <1>3

LEMMA RowExists ==
  ASSUME NEW j \in Nat \ {0}, argv[j] \in Consuming
  PROVE  \E k : RowFrom(k, j + 1)
<1> DEFINE T == {k \in 1 .. j : \A m \in k .. j : argv[m] \in Consuming}
<1>1. j \in T /\ T \in SUBSET Nat
  OBVIOUS
<1>2. PICK k \in T : \A l \in T : k <= l
  <2> HIDE DEF T
  <2> QED BY <1>1, LeastNat
<1>3. k \in 1 .. j /\ \A m \in k .. j : argv[m] \in Consuming
  BY <1>2
<1>4. ASSUME k > 1, argv[k - 1] \in Consuming PROVE FALSE
  <2>1. k - 1 \in 1 .. j
    BY <1>3, <1>4
  <2>2. \A m \in k - 1 .. j : m = k - 1 \/ m \in k .. j
    BY <1>3
  <2>3. k - 1 \in T
    BY <1>3, <1>4, <2>1, <2>2
  <2>4. k <= k - 1
    BY <1>2, <2>3
  <2> QED BY <1>3, <2>4
<1>5. (j + 1) - 1 = j
  OBVIOUS
<1> QED BY <1>3, <1>4, <1>5 DEF RowFrom

\* An argument is consumed exactly if the one before it is an option that is not
\* consumed itself.
LEMMA TakenNext ==
  ASSUME NEW n \in Nat, DOMAIN argv = 1 .. n, NEW j \in 1 .. n, j + 1 \in 1 .. n
  PROVE  j + 1 \in Taken <=> argv[j] \in Consuming /\ j \notin Taken
<1>1. j \in Nat \ {0} /\ (j + 1) - 1 = j
  OBVIOUS
<1>2. ASSUME j + 1 \in Taken PROVE argv[j] \in Consuming /\ j \notin Taken
  <2>1. PICK k : RowFrom(k, j + 1) /\ ((j + 1) - k) % 2 = 1
    BY <1>2, TakenByRow
  <2>2. k \in 1 .. j /\ argv[j] \in Consuming
    BY <1>1, <2>1 DEF RowFrom
  <2>3. ASSUME j \in Taken PROVE FALSE
    <3>1. PICK l : RowFrom(l, j) /\ (j - l) % 2 = 1
      BY <2>3, TakenByRow
    <3>2. l \in 1 .. j - 1
      BY <3>1 DEF RowFrom
    <3>3. RowFrom(l, j + 1)
      <4>1. \A m \in l .. (j + 1) - 1 : m = j \/ m \in l .. j - 1
        BY <3>2
      <4> QED BY <1>1, <2>2, <3>1, <3>2, <4>1 DEF RowFrom
    <3>4. l = k
      BY <1>1, <2>1, <3>3, RowUnique
    <3>5. j - k \in Nat /\ (j + 1) - k = (j - k) + 1
      BY <2>2
    <3> QED BY <2>1, <3>1, <3>4, <3>5, Parity
  <2> QED BY <2>2, <2>3
<1>3. ASSUME argv[j] \in Consuming, j \notin Taken PROVE j + 1 \in Taken
  <2>1. PICK k : RowFrom(k, j + 1)
    BY <1>1, <1>3, RowExists
  <2>2. k \in 1 .. j
    BY <1>1, <2>1 DEF RowFrom
  <2>3. j - k \in Nat /\ (j + 1) - k = (j - k) + 1
    BY <2>2
  <2>4. (j - k) % 2 # 1
    <3> SUFFICES ASSUME (j - k) % 2 = 1 PROVE FALSE
      OBVIOUS
    <3>1. k # j
      BY <1>1
    <3>2. RowFrom(k, j)
      BY <1>1, <2>1, <2>2, <3>1 DEF RowFrom
    <3> QED BY <1>3, <3>2, TakenByRow
  <2>5. ((j + 1) - k) % 2 = 1
    BY <2>3, <2>4, Parity
  <2> QED BY <2>1, <2>5, TakenByRow
<1> QED BY <1>2, <1>3

LEMMA FirstNotTaken == 1 \notin Taken
BY DEF Taken

-----------------------------------------------------------------------------
(* What parse_options has read so far *)

\* What stands before place n.
GivenTo(flag, n) == {j \in Given(flag) : j < n}
WordsTo(from, n) == {j \in Words : from <= j /\ j < n}

\* The options o hold what the arguments before n say; `failed' tells whether a
\* strdup has failed.
AcceptedTo(n) == \A j \in DOMAIN argv \ Taken : j < n => Accepted(j)
Default(flag) == IF flag = "-i" THEN "any" ELSE NULL
StringsRead(o, failed, n) ==
  \A flag \in DOMAIN StringField :
    \/ o[StringField[flag]] = LastOf(GivenTo(flag, n), Default(flag))
    \/ (failed = TRUE /\ o[StringField[flag]] = NULL)
NumbersRead(o, n) ==
  \A flag \in {"-t", "-P", "-s"} :
    GivenTo(flag, n) # {} => o[NumberField[flag]] = Atoi[LastOf(GivenTo(flag, n), NULL)]
ProtocolRead(o, n) == o.protocol = LastOf(GivenTo("-p", n), "raw")
FilterRead(o, failed, n) ==
  IF o.filter = NULL
  THEN failed = TRUE \/ WordsTo(1, n) = {}
  ELSE \E from \in 1 .. n :
         (from > 1 => failed = TRUE) /\ ReadsAs(o.filter, WordsTo(from, n))

Read(o, failed, n) ==
  /\ n \in 1 .. Len(argv) + 1 /\ n \notin Taken
  /\ AcceptedTo(n)
  /\ StringsRead(o, failed, n)
  /\ NumbersRead(o, n)
  /\ ProtocolRead(o, n)
  /\ FilterRead(o, failed, n)

ReadInv ==
  /\ oom \in BOOLEAN
  /\ mainPc = "start" => i = 1
  /\ mainPc \in {"parse", "parsed"} => Read(opts, oom, i)
  /\ mainPc = "parsed" => i = Len(argv) + 1 /\ opts.filter # NULL

\* The command line stays as it is, and with it what it means.
LEMMA SameArgv ==
  ASSUME argv' = argv
  PROVE  /\ Taken' = Taken /\ Words' = Words
         /\ \A flag : Given(flag)' = Given(flag)
         /\ \A j : Accepted(j)' <=> Accepted(j)
<1>1. Taken' = Taken
  BY DEF Taken
<1>2. Words' = Words
  BY <1>1 DEF Words
<1>3. ASSUME NEW flag PROVE Given(flag)' = Given(flag)
  BY <1>1 DEF Given
<1>4. ASSUME NEW j PROVE Accepted(j)' <=> Accepted(j)
  BY DEF Accepted
<1> QED BY <1>1, <1>2, <1>3, <1>4

LEMMA SameReads ==
  ASSUME argv' = argv, NEW o, NEW failed, NEW n, Read(o, failed, n)
  PROVE  Read(o, failed, n)'
<1>1. /\ Taken' = Taken /\ Words' = Words
      /\ \A flag : Given(flag)' = Given(flag)
      /\ \A j : Accepted(j)' <=> Accepted(j)
  BY SameArgv
<1>2. \A flag : GivenTo(flag, n)' = GivenTo(flag, n)
  BY <1>1 DEF GivenTo
<1>3. \A from : WordsTo(from, n)' = WordsTo(from, n)
  BY <1>1 DEF WordsTo
<1>4. ASSUME NEW S, NEW d PROVE LastOf(S, d)' = LastOf(S, d)
  BY DEF LastOf
<1>5. ASSUME NEW f, NEW S PROVE ReadsAs(f, S)' <=> ReadsAs(f, S)
  BY DEF ReadsAs
<1>6. AcceptedTo(n)'
  BY <1>1 DEF AcceptedTo, Read
<1>7. StringsRead(o, failed, n)'
  <2> SUFFICES ASSUME NEW flag \in DOMAIN StringField
               PROVE  \/ o[StringField[flag]] = LastOf(GivenTo(flag, n), Default(flag))'
                      \/ (failed = TRUE /\ o[StringField[flag]] = NULL)
    BY DEF StringsRead
  <2> DEFINE d == Default(flag)
             S == GivenTo(flag, n)
  <2>0. S' = S /\ d' = d
    BY <1>2
  <2>1. LastOf(S, d)' = LastOf(S, d)
    <3> HIDE DEF d, S
    <3> QED BY <2>0 DEF LastOf
  <2>2. o[StringField[flag]] = LastOf(S, d) \/ (failed = TRUE /\ o[StringField[flag]] = NULL)
    BY Zenon DEF Read, StringsRead
  <2> HIDE DEF d, S
  <2> QED BY <2>1, <2>2 DEF d, S
<1>8. NumbersRead(o, n)'
  <2> SUFFICES ASSUME NEW flag \in {"-t", "-P", "-s"}, GivenTo(flag, n)' # {}
               PROVE  o[NumberField[flag]] = Atoi[LastOf(GivenTo(flag, n), NULL)']
    BY DEF NumbersRead
  <2> DEFINE S == GivenTo(flag, n)
  <2>1. S' = S
    BY <1>2
  <2>2. S # {} => o[NumberField[flag]] = Atoi[LastOf(S, NULL)]
    BY Zenon DEF Read, NumbersRead
  <2>3. LastOf(S, NULL)' = LastOf(S, NULL)
    <3> HIDE DEF S
    <3> QED BY <2>1 DEF LastOf
  <2> HIDE DEF S
  <2> QED BY <2>1, <2>2, <2>3 DEF S
<1>9. ProtocolRead(o, n)'
  BY <1>2, <1>4 DEF ProtocolRead, Read, LastOf
<1>10. FilterRead(o, failed, n)'
  BY <1>3, <1>5 DEF FilterRead, Read, ReadsAs
<1> QED BY <1>1, <1>6, <1>7, <1>8, <1>9, <1>10 DEF Read

-----------------------------------------------------------------------------
(* The loop goes on *)

\* Going on behind an option and its argument.
LEMMA OptionSpan ==
  ASSUME NEW n \in Nat, DOMAIN argv = 1 .. n, Len(argv) = n,
         NEW p \in 1 .. n, p \notin Taken, argv[p] \in Consuming, p < n
  PROVE  /\ p + 2 \in 1 .. Len(argv) + 1 /\ p + 2 \notin Taken
         /\ \A flag : GivenTo(flag, p + 2) =
                        IF argv[p] = flag THEN GivenTo(flag, p) \cup {p}
                                          ELSE GivenTo(flag, p)
         /\ \A from : WordsTo(from, p + 2) = WordsTo(from, p)
         /\ AcceptedTo(p) /\ Accepted(p) => AcceptedTo(p + 2)
<1>1. p \in Nat /\ p + 1 \in 1 .. n /\ p + 1 \in Taken
  BY TakenNext
<1>2. p + 2 \notin Taken
  <2>1. CASE p + 2 \in 1 .. n
    <3>1. (p + 1) + 1 = p + 2
      BY <1>1
    <3> QED BY <1>1, <2>1, <3>1, TakenNext
  <2>2. CASE p + 2 \notin 1 .. n
    BY <2>2 DEF Taken
  <2> QED BY <2>1, <2>2
<1>3. \A j \in DOMAIN argv \ Taken : j < p + 2 <=> (j < p \/ j = p)
  BY <1>1
<1>4. ASSUME NEW flag
      PROVE  GivenTo(flag, p + 2) = IF argv[p] = flag THEN GivenTo(flag, p) \cup {p}
                                                      ELSE GivenTo(flag, p)
  BY <1>3 DEF GivenTo, Given
<1>5. argv[p] \in Dashed
  BY DEF Consuming, Dashed
<1>6. ASSUME NEW from PROVE WordsTo(from, p + 2) = WordsTo(from, p)
  BY <1>3, <1>5 DEF WordsTo, Words
<1>7. AcceptedTo(p) /\ Accepted(p) => AcceptedTo(p + 2)
  BY <1>3 DEF AcceptedTo
<1> QED BY <1>1, <1>2, <1>4, <1>6, <1>7

\* Going on behind a switch or a word.
LEMMA SingleSpan ==
  ASSUME NEW n \in Nat, DOMAIN argv = 1 .. n, Len(argv) = n,
         NEW p \in 1 .. n, p \notin Taken, argv[p] \notin Consuming
  PROVE  /\ p + 1 \in 1 .. Len(argv) + 1 /\ p + 1 \notin Taken
         /\ \A flag : argv[p] # flag => GivenTo(flag, p + 1) = GivenTo(flag, p)
         /\ argv[p] \in Dashed => \A from : WordsTo(from, p + 1) = WordsTo(from, p)
         /\ argv[p] \notin Dashed =>
              /\ WordsTo(p, p + 1) = {p}
              /\ \A from \in 1 .. p : WordsTo(from, p + 1) = WordsTo(from, p) \cup {p}
         /\ AcceptedTo(p) /\ Accepted(p) => AcceptedTo(p + 1)
<1>1. p \in Nat /\ p + 1 \in 1 .. n + 1
  OBVIOUS
<1>2. p + 1 \notin Taken
  <2>1. CASE p + 1 \in 1 .. n
    BY <1>1, <2>1, TakenNext
  <2>2. CASE p + 1 \notin 1 .. n
    BY <2>2 DEF Taken
  <2> QED BY <2>1, <2>2
<1>3. \A j \in DOMAIN argv \ Taken : j < p + 1 <=> (j < p \/ j = p)
  BY <1>1
<1>4. ASSUME NEW flag, argv[p] # flag PROVE GivenTo(flag, p + 1) = GivenTo(flag, p)
  BY <1>3, <1>4 DEF GivenTo, Given
<1>5. ASSUME argv[p] \in Dashed, NEW from PROVE WordsTo(from, p + 1) = WordsTo(from, p)
  BY <1>3, <1>5 DEF WordsTo, Words
<1>6. ASSUME argv[p] \notin Dashed
      PROVE  /\ WordsTo(p, p + 1) = {p}
             /\ \A from \in 1 .. p : WordsTo(from, p + 1) = WordsTo(from, p) \cup {p}
  <2>1. p \in Words /\ \A j \in Words : j \in DOMAIN argv \ Taken /\ j \in Nat
    BY <1>6 DEF Words
  <2>2. WordsTo(p, p + 1) = {p}
    <3>1. \A j \in Words : (p <= j /\ j < p + 1) <=> j = p
      BY <1>1, <2>1
    <3> QED BY <2>1, <3>1 DEF WordsTo
  <2>3. ASSUME NEW from \in 1 .. p
        PROVE  WordsTo(from, p + 1) = WordsTo(from, p) \cup {p}
    <3>1. \A j \in Words : (from <= j /\ j < p + 1) <=> ((from <= j /\ j < p) \/ j = p)
      BY <1>1, <2>1
    <3> QED BY <2>1, <3>1 DEF WordsTo
  <2> QED BY <2>2, <2>3
<1>7. AcceptedTo(p) /\ Accepted(p) => AcceptedTo(p + 1)
  BY <1>3 DEF AcceptedTo
<1> QED BY <1>1, <1>2, <1>4, <1>5, <1>6, <1>7

\* The last of some places and a later one.
LEMMA LastIs ==
  ASSUME NEW S \in SUBSET Nat, NEW p \in Nat, \A j \in S : j < p, NEW d
  PROVE  LastOf(S \cup {p}, d) = argv[p + 1]
<1> DEFINE T == S \cup {p}
           c == CHOOSE j \in T : \A k \in T : k <= j
<1>1. T # {} /\ p \in T /\ \A k \in T : k <= p /\ k \in Nat
  OBVIOUS
<1> HIDE DEF T
<1>2. c \in T /\ \A k \in T : k <= c
  <2>1. \E j \in T : \A k \in T : k <= j
    BY <1>1
  <2> QED BY <2>1
<1>3. LastOf(T, d) = argv[c + 1]
  BY <1>1 DEF LastOf
<1> HIDE DEF c
<1>4. c \in Nat /\ c <= p /\ p <= c
  BY <1>1, <1>2
<1>5. c = p
  BY <1>4
<1> QED BY <1>3, <1>5 DEF T

LEMMA GivenBefore ==
  ASSUME NEW n \in Nat, DOMAIN argv = 1 .. n, NEW p \in Nat, NEW flag
  PROVE  GivenTo(flag, p) \in SUBSET Nat /\ \A j \in GivenTo(flag, p) : j < p
BY DEF GivenTo, Given

\* The first word of the filter, and each one more.
LEMMA ReadsFirst ==
  ASSUME NEW p
  PROVE  ReadsAs(<<argv[p]>>, {p})
<1> DEFINE f == <<argv[p]>>
           at == [m \in 1 .. 1 |-> p]
<1>1. DOMAIN f = 1 .. 1 /\ f[1] = argv[p]
  OBVIOUS
<1>2. at \in [DOMAIN f -> {p}] /\ at[1] = p /\ \A m \in DOMAIN f : m = 1
  BY <1>1
<1> HIDE DEF f, at
<1>3. ReadsAs(f, {p})
  BY <1>1, <1>2 DEF ReadsAs
<1> QED BY <1>3 DEF f

LEMMA ReadsMore ==
  ASSUME NEW f \in Seq(Texts), NEW P \in SUBSET Nat, NEW p \in Nat, \A j \in P : j < p,
         argv[p] \in Texts, ReadsAs(f, P)
  PROVE  ReadsAs(Append(f, argv[p]), P \cup {p})
<1>1. PICK at \in [DOMAIN f -> P] :
        /\ \A m \in DOMAIN f : f[m] = argv[at[m]]
        /\ \A l, m \in DOMAIN f : l < m => at[l] < at[m]
        /\ \A q \in P : \E m \in DOMAIN f : at[m] = q
  BY DEF ReadsAs
<1> DEFINE n == Len(f)
           g == Append(f, argv[p])
           on == [m \in 1 .. n + 1 |-> IF m = n + 1 THEN p ELSE at[m]]
<1>2. n \in Nat /\ DOMAIN f = 1 .. n
  OBVIOUS
<1>3. /\ DOMAIN g = 1 .. n + 1 /\ g[n + 1] = argv[p]
      /\ \A m \in 1 .. n : g[m] = f[m]
  OBVIOUS
<1>4. \A m \in 1 .. n + 1 : m = n + 1 \/ m \in 1 .. n
  BY <1>2
<1>5. /\ on \in [1 .. n + 1 -> P \cup {p}]
      /\ on[n + 1] = p /\ \A m \in 1 .. n : on[m] = at[m] /\ at[m] \in P /\ m # n + 1
  BY <1>1, <1>2, <1>4, SMTT(30)
<1> HIDE DEF n, g, on
<1>6. \A m \in 1 .. n + 1 : g[m] = argv[on[m]]
  BY <1>1, <1>2, <1>3, <1>4, <1>5
<1>7. ASSUME NEW l \in 1 .. n + 1, NEW m \in 1 .. n + 1, l < m PROVE on[l] < on[m]
  <2>1. l \in 1 .. n
    BY <1>2, <1>7
  <2>2. CASE m = n + 1
    BY <1>5, <2>1, <2>2
  <2>3. CASE m \in 1 .. n
    BY <1>1, <1>2, <1>5, <1>7, <2>1, <2>3
  <2> QED BY <1>4, <2>2, <2>3
<1>8. ASSUME NEW q \in P \cup {p} PROVE \E m \in 1 .. n + 1 : on[m] = q
  <2>1. CASE q = p
    <3>1. n + 1 \in 1 .. n + 1
      BY <1>2
    <3> QED BY <1>5, <2>1, <3>1
  <2>2. CASE q \in P
    <3>1. PICK m \in 1 .. n : at[m] = q
      BY <1>1, <1>2, <2>2
    <3>2. m \in 1 .. n + 1
      BY <1>2
    <3> QED BY <1>5, <3>1, <3>2
  <2> QED BY <2>1, <2>2
<1>9. ReadsAs(g, P \cup {p})
  <2> DEFINE Q == P \cup {p}
             D == 1 .. n + 1
  <2>1. /\ on \in [D -> Q]
        /\ \A m \in D : g[m] = argv[on[m]]
        /\ \A l, m \in D : l < m => on[l] < on[m]
        /\ \A q \in Q : \E m \in D : on[m] = q
    BY <1>5, <1>6, <1>7, <1>8
  <2>2. DOMAIN g = D
    BY <1>3
  <2> HIDE DEF Q, D
  <2>3. ReadsAs(g, Q)
    BY <2>1, <2>2, Zenon DEF ReadsAs
  <2> QED BY <2>3 DEF Q
<1> QED BY <1>9 DEF g

\* What an iteration leaves alone.
LEMMA StringsKept ==
  ASSUME NEW q, StringsRead(opts, oom, i), oom = TRUE => oom' = TRUE,
         \A flag \in DOMAIN StringField : /\ GivenTo(flag, q) = GivenTo(flag, i)
                                          /\ opts'[StringField[flag]] = opts[StringField[flag]]
  PROVE  StringsRead(opts', oom', q)
BY Zenon DEF StringsRead

LEMMA NumbersKept ==
  ASSUME NEW o, NEW o2, NEW p, NEW q, NumbersRead(o, p),
         \A flag \in {"-t", "-P", "-s"} : /\ GivenTo(flag, q) = GivenTo(flag, p)
                                          /\ o2[NumberField[flag]] = o[NumberField[flag]]
  PROVE  NumbersRead(o2, q)
BY Zenon DEF NumbersRead

LEMMA ProtocolKept ==
  ASSUME NEW o, NEW o2, NEW p, NEW q, ProtocolRead(o, p),
         GivenTo("-p", q) = GivenTo("-p", p), o2.protocol = o.protocol
  PROVE  ProtocolRead(o2, q)
BY Zenon DEF ProtocolRead

LEMMA FilterKept ==
  ASSUME i \in Nat, NEW q \in Nat, i <= q, oom = TRUE => oom' = TRUE,
         FilterRead(opts, oom, i), \A from : WordsTo(from, q) = WordsTo(from, i),
         opts'.filter = opts.filter
  PROVE  FilterRead(opts', oom', q)
<1>1. CASE opts.filter = NULL
  BY <1>1 DEF FilterRead
<1>2. CASE opts.filter # NULL
  <2>1. PICK from \in 1 .. i :
          (from > 1 => oom = TRUE) /\ ReadsAs(opts.filter, WordsTo(from, i))
    BY <1>2 DEF FilterRead
  <2>2. from \in 1 .. q
    OBVIOUS
  <2>3. (from > 1 => oom' = TRUE) /\ ReadsAs(opts'.filter, WordsTo(from, q))
    BY <2>1
  <2> QED BY <1>2, <2>2, <2>3 DEF FilterRead
<1> QED BY <1>1, <1>2

\* The loop of parse_options at an argument.
LEMMA AtArgument ==
  ASSUME OptInv, ReadInv, More
  PROVE  /\ Len(argv) \in Nat /\ DOMAIN argv = 1 .. Len(argv)
         /\ i \in 1 .. Len(argv) /\ i \notin Taken /\ i \in Nat
         /\ AcceptedTo(i) /\ StringsRead(opts, oom, i) /\ NumbersRead(opts, i)
         /\ ProtocolRead(opts, i) /\ FilterRead(opts, oom, i)
         /\ oom \in BOOLEAN /\ opts \in OptionRecords
<1>1. argv \in Seq(STRING)
  BY OptionsAssumption DEF OptInv
<1>2. Len(argv) \in Nat /\ DOMAIN argv = 1 .. Len(argv)
  BY <1>1
<1>3. mainPc = "parse" /\ i <= Len(argv)
  BY DEF More
<1>4. Read(opts, oom, i) /\ oom \in BOOLEAN
  BY <1>3 DEF ReadInv
<1>5. i \in 1 .. Len(argv) + 1 /\ i \notin Taken
  BY <1>4 DEF Read
<1>6. i \in 1 .. Len(argv) /\ i \in Nat
  BY <1>2, <1>3, <1>5
<1>7. opts \in OptionRecords
  BY <1>3 DEF OptInv
<1> QED BY <1>2, <1>4, <1>5, <1>6, <1>7 DEF Read

LEMMA ReadOn ==
  ASSUME argv' = argv, mainPc' = "parse", oom' \in BOOLEAN, Read(opts', oom', i')
  PROVE  ReadInv'
<1>1. PICK o, m, n : o = opts' /\ m = oom' /\ n = i'
  OBVIOUS
<1>2. Read(o, m, n)
  BY <1>1
<1>3. Read(o, m, n)'
  BY <1>2, SameReads
<1>4. Read(opts, oom, i)'
  BY <1>1, <1>3
<1> QED BY <1>4 DEF ReadInv

\* The flags and the fields they are stored in.
LEMMA FlagFacts ==
  /\ DOMAIN StringField = {"-i", "-S", "-r", "-w"}
  /\ DOMAIN NumberField = {"-B", "-t", "-P", "-s"}
  /\ DOMAIN SwitchField = {"-v", "-h", "-A"}
  /\ Consuming = {"-i", "-S", "-r", "-w", "-B", "-t", "-P", "-s", "-p"}
  /\ Consuming \subseteq Dashed /\ DOMAIN SwitchField \subseteq Dashed
  /\ Consuming \subseteq Flags /\ DOMAIN SwitchField \subseteq Flags
  /\ StringField["-i"] = "dev" /\ StringField["-S"] = "script"
  /\ StringField["-r"] = "offline_file" /\ StringField["-w"] = "save_file"
  /\ NumberField["-B"] = "buf_size" /\ NumberField["-t"] = "threshold"
  /\ NumberField["-P"] = "stats_port" /\ NumberField["-s"] = "snaplen"
  /\ SwitchField["-v"] = "print_version" /\ SwitchField["-h"] = "print_usage"
  /\ SwitchField["-A"] = "ascii"
BY DEF StringField, NumberField, SwitchField, Consuming, Dashed, Flags

\* Each step of parse_options: what the options hold is what the arguments
\* read so far say.
LEMMA SwitchReads == ASSUME OptInv, ReadInv, Switch PROVE ReadInv'
<1>1. More /\ argv[i] \in DOMAIN SwitchField /\ argv' = argv /\ mainPc' = "parse"
      /\ i' = i + 1 /\ oom' = oom
      /\ opts' = [opts EXCEPT ![SwitchField[argv[i]]] = 1]
  BY DEF Switch, Goto
<1> DEFINE n == Len(argv)
<1>2. /\ n \in Nat /\ DOMAIN argv = 1 .. n /\ i \in 1 .. n /\ i \notin Taken /\ i \in Nat
      /\ AcceptedTo(i) /\ StringsRead(opts, oom, i) /\ NumbersRead(opts, i)
      /\ ProtocolRead(opts, i) /\ FilterRead(opts, oom, i)
      /\ oom \in BOOLEAN /\ opts \in OptionRecords
  BY <1>1, AtArgument
<1>3. argv[i] \in {"-v", "-h", "-A"} /\ argv[i] \notin Consuming /\ argv[i] \in Dashed
  BY <1>1, FlagFacts
<1>4. Accepted(i)
  BY <1>1, <1>3, FlagFacts DEF Accepted
<1>5. /\ i + 1 \in 1 .. Len(argv) + 1 /\ i + 1 \notin Taken /\ AcceptedTo(i + 1)
      /\ \A flag : argv[i] # flag => GivenTo(flag, i + 1) = GivenTo(flag, i)
      /\ \A from : WordsTo(from, i + 1) = WordsTo(from, i)
  BY <1>2, <1>3, <1>4, SingleSpan
<1>6. SwitchField[argv[i]] \in {"ascii", "print_usage", "print_version"}
  BY <1>3, FlagFacts
<1>7. \A f \in {"dev", "script", "offline_file", "save_file", "filter", "protocol",
                "threshold", "stats_port", "snaplen"} : opts'[f] = opts[f]
  BY <1>1, <1>2, <1>6 DEF OptionRecords
<1>8. StringsRead(opts', oom', i + 1)
  <2>1. \A flag \in DOMAIN StringField : /\ GivenTo(flag, i + 1) = GivenTo(flag, i)
                                         /\ opts'[StringField[flag]] = opts[StringField[flag]]
    BY <1>3, <1>5, <1>7, FlagFacts
  <2>2. oom' \in BOOLEAN /\ (oom = TRUE => oom' = TRUE)
    BY <1>1, <1>2
  <2> QED BY <1>2, <2>1, <2>2, StringsKept
<1>9. NumbersRead(opts', i + 1)
  <2>1. \A flag \in {"-t", "-P", "-s"} : /\ GivenTo(flag, i + 1) = GivenTo(flag, i)
                                         /\ opts'[NumberField[flag]] = opts[NumberField[flag]]
    BY <1>3, <1>5, <1>7, FlagFacts
  <2> QED BY <1>2, <2>1, NumbersKept
<1>10. ProtocolRead(opts', i + 1)
  <2>1. GivenTo("-p", i + 1) = GivenTo("-p", i) /\ opts'.protocol = opts.protocol
    BY <1>3, <1>5, <1>7
  <2> QED BY <1>2, <2>1, ProtocolKept
<1>11. FilterRead(opts', oom', i + 1)
  <2>1. opts'.filter = opts.filter /\ i + 1 \in Nat /\ i <= i + 1
    BY <1>2, <1>7
  <2>2. oom' \in BOOLEAN /\ (oom = TRUE => oom' = TRUE)
    BY <1>1, <1>2
  <2> QED BY <1>2, <1>5, <2>1, <2>2, FilterKept
<1>12. Read(opts', oom', i')
  BY <1>1, <1>5, <1>8, <1>9, <1>10, <1>11 DEF Read
<1> QED BY <1>1, <1>2, <1>12, ReadOn

LEMMA StringReads == ASSUME OptInv, ReadInv, StringOption PROVE ReadInv'
<1>1. More /\ argv[i] \in DOMAIN StringField /\ ~lastarg /\ argv' = argv
      /\ mainPc' = "parse" /\ i' = i + 2
  BY DEF StringOption, Goto
<1> DEFINE n == Len(argv)
           f == StringField[argv[i]]
<1>0. PICK ok \in BOOLEAN : Replace(f, argv[i + 1], ok)
  BY DEF StringOption
<1>2. /\ n \in Nat /\ DOMAIN argv = 1 .. n /\ i \in 1 .. n /\ i \notin Taken /\ i \in Nat
      /\ AcceptedTo(i) /\ StringsRead(opts, oom, i) /\ NumbersRead(opts, i)
      /\ ProtocolRead(opts, i) /\ FilterRead(opts, oom, i)
      /\ oom \in BOOLEAN /\ opts \in OptionRecords
  BY <1>1, AtArgument
<1>3. argv[i] \in {"-i", "-S", "-r", "-w"} /\ argv[i] \in Consuming /\ i < n
  <2>1. i < n
    BY <1>1, <1>2 DEF lastarg
  <2> QED BY <1>1, <2>1, FlagFacts
<1>4. Accepted(i)
  BY <1>3, FlagFacts DEF Accepted
<1>5. /\ i + 2 \in 1 .. Len(argv) + 1 /\ i + 2 \notin Taken /\ AcceptedTo(i + 2)
      /\ \A flag : GivenTo(flag, i + 2) = IF argv[i] = flag THEN GivenTo(flag, i) \cup {i}
                                                            ELSE GivenTo(flag, i)
      /\ \A from : WordsTo(from, i + 2) = WordsTo(from, i)
  BY <1>2, <1>3, <1>4, OptionSpan
<1>6. /\ f \in {"dev", "script", "offline_file", "save_file"}
      /\ \A flag \in DOMAIN StringField : flag # argv[i] => StringField[flag] # f
  BY <1>3, FlagFacts
<1>7. /\ oom' \in BOOLEAN /\ (oom = TRUE => oom' = TRUE) /\ (~ok => oom' = TRUE)
      /\ opts' = [opts EXCEPT ![f] = IF ok THEN argv[i + 1] ELSE NULL]
  BY <1>0, <1>2 DEF Replace
<1> HIDE DEF f
<1>8. /\ opts'[f] = IF ok THEN argv[i + 1] ELSE NULL
      /\ \A g \in {"dev", "script", "offline_file", "save_file"} : g # f => opts'[g] = opts[g]
      /\ \A g \in {"filter", "protocol", "threshold", "stats_port", "snaplen"} :
           opts'[g] = opts[g]
  BY <1>2, <1>6, <1>7 DEF OptionRecords
<1>9. StringsRead(opts', oom', i + 2)
  <2> SUFFICES ASSUME NEW flag \in DOMAIN StringField
               PROVE  \/ opts'[StringField[flag]] = LastOf(GivenTo(flag, i + 2), Default(flag))
                      \/ (oom' = TRUE /\ opts'[StringField[flag]] = NULL)
    BY Zenon DEF StringsRead
  <2>1. CASE flag = argv[i]
    <3>1. GivenTo(flag, i + 2) = GivenTo(flag, i) \cup {i}
      BY <1>5, <2>1
    <3>2. LastOf(GivenTo(flag, i) \cup {i}, Default(flag)) = argv[i + 1]
      BY <1>2, GivenBefore, LastIs
    <3> QED BY <1>7, <1>8, <2>1, <3>1, <3>2 DEF f
  <2>2. CASE flag # argv[i]
    <3>1. GivenTo(flag, i + 2) = GivenTo(flag, i)
      BY <1>5, <2>2
    <3>2. opts'[StringField[flag]] = opts[StringField[flag]]
      BY <1>6, <1>8, <2>2, FlagFacts
    <3>3. \/ opts[StringField[flag]] = LastOf(GivenTo(flag, i), Default(flag))
          \/ (oom = TRUE /\ opts[StringField[flag]] = NULL)
      BY <1>2, Zenon DEF StringsRead
    <3> QED BY <1>7, <3>1, <3>2, <3>3
  <2> QED BY <2>1, <2>2
<1>10. NumbersRead(opts', i + 2)
  <2>1. \A flag \in {"-t", "-P", "-s"} : /\ GivenTo(flag, i + 2) = GivenTo(flag, i)
                                         /\ opts'[NumberField[flag]] = opts[NumberField[flag]]
    <3>1. \A flag \in {"-t", "-P", "-s"} : argv[i] # flag
      BY <1>3
    <3>2. \A flag \in {"-t", "-P", "-s"} : GivenTo(flag, i + 2) = GivenTo(flag, i)
      BY <1>5, <3>1
    <3>3. \A flag \in {"-t", "-P", "-s"} : opts'[NumberField[flag]] = opts[NumberField[flag]]
      BY <1>8, FlagFacts
    <3> QED BY <3>2, <3>3
  <2> QED BY <1>2, <2>1, NumbersKept
<1>11. ProtocolRead(opts', i + 2)
  <2>1. GivenTo("-p", i + 2) = GivenTo("-p", i) /\ opts'.protocol = opts.protocol
    BY <1>3, <1>5, <1>8
  <2> QED BY <1>2, <2>1, ProtocolKept
<1>12. FilterRead(opts', oom', i + 2)
  <2>1. opts'.filter = opts.filter /\ i + 2 \in Nat /\ i <= i + 2
    BY <1>2, <1>8
  <2> QED BY <1>2, <1>5, <1>7, <2>1, FilterKept
<1>13. Read(opts', oom', i')
  BY <1>1, <1>5, <1>9, <1>10, <1>11, <1>12 DEF Read
<1> QED BY <1>1, <1>7, <1>13, ReadOn

LEMMA NumberReads == ASSUME OptInv, ReadInv, NumberOption PROVE ReadInv'
<1> DEFINE n == Len(argv)
           f == NumberField[argv[i]]
           v == ReadNumber(argv[i], argv[i + 1])
<1>1. More /\ argv[i] \in DOMAIN NumberField /\ ~lastarg /\ argv' = argv
      /\ mainPc' = "parse" /\ i' = i + 2 /\ oom' = oom
      /\ opts' = [opts EXCEPT ![f] = v]
  BY DEF NumberOption, Goto
<1>2. /\ n \in Nat /\ DOMAIN argv = 1 .. n /\ i \in 1 .. n /\ i \notin Taken /\ i \in Nat
      /\ AcceptedTo(i) /\ StringsRead(opts, oom, i) /\ NumbersRead(opts, i)
      /\ ProtocolRead(opts, i) /\ FilterRead(opts, oom, i)
      /\ oom \in BOOLEAN /\ opts \in OptionRecords
  BY <1>1, AtArgument
<1>3. argv[i] \in {"-B", "-t", "-P", "-s"} /\ argv[i] \in Consuming /\ i < n
  <2>1. i < n
    BY <1>1, <1>2 DEF lastarg
  <2> QED BY <1>1, <2>1, FlagFacts
<1>4. Accepted(i)
  BY <1>3, FlagFacts DEF Accepted
<1>5. /\ i + 2 \in 1 .. Len(argv) + 1 /\ i + 2 \notin Taken /\ AcceptedTo(i + 2)
      /\ \A flag : GivenTo(flag, i + 2) = IF argv[i] = flag THEN GivenTo(flag, i) \cup {i}
                                                            ELSE GivenTo(flag, i)
      /\ \A from : WordsTo(from, i + 2) = WordsTo(from, i)
  BY <1>2, <1>3, <1>4, OptionSpan
<1>6. /\ f \in {"buf_size", "threshold", "stats_port", "snaplen"}
      /\ \A flag \in {"-t", "-P", "-s"} : flag # argv[i] => NumberField[flag] # f
  BY <1>3, FlagFacts
<1>7. argv[i] # "-B" => v = Atoi[argv[i + 1]]
  BY DEF ReadNumber
<1> HIDE DEF f, v
<1>8. /\ opts'[f] = v
      /\ \A g \in {"buf_size", "threshold", "stats_port", "snaplen"} : g # f => opts'[g] = opts[g]
      /\ \A g \in {"filter", "protocol", "dev", "script", "offline_file", "save_file"} :
           opts'[g] = opts[g]
  BY <1>1, <1>2, <1>6 DEF OptionRecords
<1>9. NumbersRead(opts', i + 2)
  <2> SUFFICES ASSUME NEW flag \in {"-t", "-P", "-s"}, GivenTo(flag, i + 2) # {}
               PROVE  opts'[NumberField[flag]] = Atoi[LastOf(GivenTo(flag, i + 2), NULL)]
    BY Zenon DEF NumbersRead
  <2>1. CASE flag = argv[i]
    <3>1. GivenTo(flag, i + 2) = GivenTo(flag, i) \cup {i}
      BY <1>5, <2>1
    <3>2. LastOf(GivenTo(flag, i) \cup {i}, NULL) = argv[i + 1]
      BY <1>2, GivenBefore, LastIs
    <3>3. argv[i] # "-B"
      BY <2>1
    <3> QED BY <1>7, <1>8, <2>1, <3>1, <3>2, <3>3 DEF f
  <2>2. CASE flag # argv[i]
    <3>1. GivenTo(flag, i + 2) = GivenTo(flag, i)
      BY <1>5, <2>2
    <3>2. opts'[NumberField[flag]] = opts[NumberField[flag]]
      BY <1>6, <1>8, <2>2, FlagFacts
    <3>3. GivenTo(flag, i) # {} => opts[NumberField[flag]] = Atoi[LastOf(GivenTo(flag, i), NULL)]
      BY <1>2, Zenon DEF NumbersRead
    <3> QED BY <3>1, <3>2, <3>3
  <2> QED BY <2>1, <2>2
<1>10. StringsRead(opts', oom', i + 2)
  <2>1. \A flag \in DOMAIN StringField : GivenTo(flag, i + 2) = GivenTo(flag, i)
    <3>1. \A flag \in DOMAIN StringField : argv[i] # flag
      BY <1>3, FlagFacts
    <3> QED BY <1>5, <3>1
  <2>2. \A flag \in DOMAIN StringField : opts'[StringField[flag]] = opts[StringField[flag]]
    BY <1>8, FlagFacts
  <2> QED BY <1>1, <1>2, <2>1, <2>2, StringsKept
<1>11. ProtocolRead(opts', i + 2)
  <2>1. GivenTo("-p", i + 2) = GivenTo("-p", i) /\ opts'.protocol = opts.protocol
    BY <1>3, <1>5, <1>8
  <2> QED BY <1>2, <2>1, ProtocolKept
<1>12. FilterRead(opts', oom', i + 2)
  <2>1. opts'.filter = opts.filter /\ i + 2 \in Nat /\ i <= i + 2
    BY <1>2, <1>8
  <2> QED BY <1>1, <1>2, <1>5, <2>1, FilterKept
<1>13. Read(opts', oom', i')
  BY <1>1, <1>5, <1>9, <1>10, <1>11, <1>12 DEF Read
<1> QED BY <1>1, <1>2, <1>13, ReadOn

LEMMA ProtocolReads == ASSUME OptInv, ReadInv, ProtocolOption PROVE ReadInv'
<1> DEFINE n == Len(argv)
<1>1. More /\ argv[i] = "-p" /\ ~lastarg /\ argv[i + 1] \in Protocols /\ argv' = argv
      /\ mainPc' = "parse" /\ i' = i + 2 /\ oom' = oom
      /\ opts' = [opts EXCEPT !.protocol = argv[i + 1]]
  BY DEF ProtocolOption, Goto
<1>2. /\ n \in Nat /\ DOMAIN argv = 1 .. n /\ i \in 1 .. n /\ i \notin Taken /\ i \in Nat
      /\ AcceptedTo(i) /\ StringsRead(opts, oom, i) /\ NumbersRead(opts, i)
      /\ ProtocolRead(opts, i) /\ FilterRead(opts, oom, i)
      /\ oom \in BOOLEAN /\ opts \in OptionRecords
  BY <1>1, AtArgument
<1>3. argv[i] \in Consuming /\ i < n
  <2>1. i < n
    BY <1>1, <1>2 DEF lastarg
  <2> QED BY <1>1, <2>1, FlagFacts
<1>4. Accepted(i)
  BY <1>1, <1>3, FlagFacts DEF Accepted
<1>5. /\ i + 2 \in 1 .. Len(argv) + 1 /\ i + 2 \notin Taken /\ AcceptedTo(i + 2)
      /\ \A flag : GivenTo(flag, i + 2) = IF argv[i] = flag THEN GivenTo(flag, i) \cup {i}
                                                            ELSE GivenTo(flag, i)
      /\ \A from : WordsTo(from, i + 2) = WordsTo(from, i)
  BY <1>2, <1>3, <1>4, OptionSpan
<1>6. /\ opts'.protocol = argv[i + 1]
      /\ \A g \in {"filter", "dev", "script", "offline_file", "save_file",
                   "threshold", "stats_port", "snaplen"} : opts'[g] = opts[g]
  BY <1>1, <1>2 DEF OptionRecords
<1>7. ProtocolRead(opts', i + 2)
  <2> DEFINE p == "-p"
             raw == "raw"
  <2>1. GivenTo(p, i + 2) = GivenTo(p, i) \cup {i}
    BY <1>1, <1>5
  <2> HIDE DEF p, raw
  <2>2. LastOf(GivenTo(p, i) \cup {i}, raw) = argv[i + 1]
    BY <1>2, GivenBefore, LastIs
  <2> QED BY <1>6, <2>1, <2>2 DEF p, raw, ProtocolRead
<1>8. StringsRead(opts', oom', i + 2)
  <2>1. \A flag \in DOMAIN StringField : GivenTo(flag, i + 2) = GivenTo(flag, i)
    <3>1. \A flag \in DOMAIN StringField : argv[i] # flag
      BY <1>1, FlagFacts
    <3> QED BY <1>5, <3>1
  <2>2. \A flag \in DOMAIN StringField : opts'[StringField[flag]] = opts[StringField[flag]]
    BY <1>6, FlagFacts
  <2> QED BY <1>1, <1>2, <2>1, <2>2, StringsKept
<1>9. NumbersRead(opts', i + 2)
  <2>1. \A flag \in {"-t", "-P", "-s"} : GivenTo(flag, i + 2) = GivenTo(flag, i)
    <3>1. \A flag \in {"-t", "-P", "-s"} : argv[i] # flag
      BY <1>1
    <3> QED BY <1>5, <3>1
  <2>2. \A flag \in {"-t", "-P", "-s"} : opts'[NumberField[flag]] = opts[NumberField[flag]]
    BY <1>6, FlagFacts
  <2> QED BY <1>2, <2>1, <2>2, NumbersKept
<1>10. FilterRead(opts', oom', i + 2)
  <2>1. opts'.filter = opts.filter /\ i + 2 \in Nat /\ i <= i + 2
    BY <1>2, <1>6
  <2> QED BY <1>1, <1>2, <1>5, <2>1, FilterKept
<1>11. Read(opts', oom', i')
  BY <1>1, <1>5, <1>7, <1>8, <1>9, <1>10 DEF Read
<1> QED BY <1>1, <1>2, <1>11, ReadOn

\* What does not change at a word.
LEMMA WordReads ==
  ASSUME OptInv, ReadInv, More, argv[i] \notin Dashed, oom = TRUE => oom' = TRUE,
         \A g \in {"dev", "script", "offline_file", "save_file", "protocol",
                   "threshold", "stats_port", "snaplen"} : opts'[g] = opts[g]
  PROVE  /\ i + 1 \in 1 .. Len(argv) + 1 /\ i + 1 \notin Taken /\ AcceptedTo(i + 1)
         /\ WordsTo(i, i + 1) = {i}
         /\ \A from \in 1 .. i : WordsTo(from, i + 1) = WordsTo(from, i) \cup {i}
         /\ StringsRead(opts', oom', i + 1) /\ NumbersRead(opts', i + 1)
         /\ ProtocolRead(opts', i + 1)
<1> DEFINE n == Len(argv)
<1>1. /\ n \in Nat /\ DOMAIN argv = 1 .. n /\ i \in 1 .. n /\ i \notin Taken
      /\ AcceptedTo(i) /\ StringsRead(opts, oom, i) /\ NumbersRead(opts, i)
      /\ ProtocolRead(opts, i)
  BY AtArgument
<1>2. argv[i] \notin Consuming /\ argv[i] # "-p" /\ \A flag \in Flags : argv[i] # flag
  BY DEF Consuming, Dashed, Flags
<1>3. Accepted(i)
  BY <1>2 DEF Accepted
<1>4. /\ i + 1 \in 1 .. Len(argv) + 1 /\ i + 1 \notin Taken /\ AcceptedTo(i + 1)
      /\ \A flag : argv[i] # flag => GivenTo(flag, i + 1) = GivenTo(flag, i)
      /\ WordsTo(i, i + 1) = {i}
      /\ \A from \in 1 .. i : WordsTo(from, i + 1) = WordsTo(from, i) \cup {i}
  BY <1>1, <1>2, <1>3, SingleSpan
<1>5. \A flag \in Flags : GivenTo(flag, i + 1) = GivenTo(flag, i)
  BY <1>2, <1>4
<1>6. DOMAIN StringField \subseteq Flags /\ {"-t", "-P", "-s"} \subseteq Flags /\ "-p" \in Flags
  BY FlagFacts
<1>7. StringsRead(opts', oom', i + 1)
  <2>1. \A flag \in DOMAIN StringField : /\ GivenTo(flag, i + 1) = GivenTo(flag, i)
                                         /\ opts'[StringField[flag]] = opts[StringField[flag]]
    BY <1>5, <1>6, FlagFacts
  <2> QED BY <1>1, <2>1, StringsKept
<1>8. NumbersRead(opts', i + 1)
  <2>1. \A flag \in {"-t", "-P", "-s"} : /\ GivenTo(flag, i + 1) = GivenTo(flag, i)
                                         /\ opts'[NumberField[flag]] = opts[NumberField[flag]]
    BY <1>5, <1>6, FlagFacts
  <2> QED BY <1>1, <2>1, NumbersKept
<1>9. ProtocolRead(opts', i + 1)
  <2>1. GivenTo("-p", i + 1) = GivenTo("-p", i) /\ opts'.protocol = opts.protocol
    BY <1>5, <1>6
  <2> QED BY <1>1, <2>1, ProtocolKept
<1> QED BY <1>4, <1>7, <1>8, <1>9

LEMMA FirstWordReads == ASSUME OptInv, ReadInv, FirstWord PROVE ReadInv'
<1>1. More /\ argv[i] \notin Dashed /\ opts.filter = NULL /\ argv' = argv
      /\ mainPc' = "parse" /\ i' = i + 1
  BY DEF FirstWord, Goto
<1> DEFINE w == <<argv[i]>>
<1>2. PICK ok \in BOOLEAN : Replace("filter", w, ok)
  BY DEF FirstWord
<1>3. /\ i \in Nat /\ i \in 1 .. Len(argv) /\ FilterRead(opts, oom, i)
      /\ oom \in BOOLEAN /\ opts \in OptionRecords
  BY <1>1, AtArgument
<1>4. w \in Seq(Texts) /\ w # NULL
  <2>1. argv[i] \in Texts
    BY <1>1, Arguments
  <2>2. w \in Seq(Texts)
    BY <2>1
  <2> QED BY <2>2, PointerAssumption
<1>5. ReadsAs(w, {i})
  BY <1>3, ReadsFirst
<1> HIDE DEF w
<1>6. /\ oom' \in BOOLEAN /\ (oom = TRUE => oom' = TRUE) /\ (~ok => oom' = TRUE)
      /\ opts' = [opts EXCEPT !["filter"] = IF ok THEN w ELSE NULL]
  BY <1>2, <1>3 DEF Replace
<1>7. /\ opts'.filter = IF ok THEN w ELSE NULL
      /\ \A g \in {"dev", "script", "offline_file", "save_file", "protocol",
                   "threshold", "stats_port", "snaplen"} : opts'[g] = opts[g]
  BY <1>3, <1>6 DEF OptionRecords
<1>8. /\ i + 1 \in 1 .. Len(argv) + 1 /\ i + 1 \notin Taken /\ AcceptedTo(i + 1)
      /\ WordsTo(i, i + 1) = {i}
      /\ \A from \in 1 .. i : WordsTo(from, i + 1) = WordsTo(from, i) \cup {i}
      /\ StringsRead(opts', oom', i + 1) /\ NumbersRead(opts', i + 1)
      /\ ProtocolRead(opts', i + 1)
  BY <1>1, <1>6, <1>7, WordReads
<1>9. FilterRead(opts', oom', i + 1)
  <2>1. CASE ~ok
    BY <1>6, <1>7, <2>1 DEF FilterRead
  <2>2. CASE ok /\ oom = TRUE
    <3>1. i \in 1 .. i + 1
      BY <1>3
    <3>2. ReadsAs(w, WordsTo(i, i + 1))
      BY <1>5, <1>8, Zenon
    <3> QED BY <1>4, <1>6, <1>7, <2>2, <3>1, <3>2 DEF FilterRead
  <2>3. CASE ok /\ oom # TRUE
    <3>1. WordsTo(1, i) = {}
      BY <1>1, <1>3, <2>3 DEF FilterRead
    <3>2. 1 \in 1 .. i /\ 1 \in 1 .. i + 1 /\ ~(1 > 1)
      BY <1>3
    <3>3. ReadsAs(w, WordsTo(1, i + 1))
      BY <1>5, <1>8, <3>1, <3>2
    <3> QED BY <1>4, <1>7, <2>3, <3>2, <3>3 DEF FilterRead
  <2> QED BY <2>1, <2>2, <2>3
<1>10. Read(opts', oom', i')
  BY <1>1, <1>8, <1>9 DEF Read
<1> QED BY <1>1, <1>6, <1>10, ReadOn

LEMMA NextWordReads == ASSUME OptInv, ReadInv, NextWord PROVE ReadInv'
<1>1. More /\ argv[i] \notin Dashed /\ opts.filter # NULL /\ argv' = argv
      /\ mainPc' = "parse" /\ i' = i + 1 /\ oom' = oom
      /\ opts' = [opts EXCEPT !.filter = Append(opts.filter, argv[i])]
  BY DEF NextWord, Goto, Joined
<1>2. /\ i \in Nat /\ i \in 1 .. Len(argv) /\ FilterRead(opts, oom, i)
      /\ oom \in BOOLEAN /\ opts \in OptionRecords
      /\ Len(argv) \in Nat /\ DOMAIN argv = 1 .. Len(argv)
  BY <1>1, AtArgument
<1>3. argv[i] \in Texts /\ opts.filter \in Seq(Texts)
  BY <1>1, <1>2, Arguments DEF OptionRecords
<1> DEFINE g == Append(opts.filter, argv[i])
<1>4. g \in Seq(Texts) /\ g # NULL
  <2>1. g \in Seq(Texts)
    BY <1>3
  <2> QED BY <2>1, PointerAssumption
<1>5. PICK from \in 1 .. i :
        (from > 1 => oom = TRUE) /\ ReadsAs(opts.filter, WordsTo(from, i))
  BY <1>1, <1>2 DEF FilterRead
<1>6. ReadsAs(g, WordsTo(from, i) \cup {i})
  <2> DEFINE P == WordsTo(from, i)
             f == opts.filter
  <2>1. P \in SUBSET Nat /\ \A j \in P : j < i
    BY <1>2 DEF WordsTo, Words
  <2>2. f \in Seq(Texts) /\ ReadsAs(f, P)
    BY <1>3, <1>5
  <2> HIDE DEF P, f
  <2>3. ReadsAs(Append(f, argv[i]), P \cup {i})
    BY <1>2, <1>3, <2>1, <2>2, ReadsMore
  <2> QED BY <2>3 DEF P, f
<1> HIDE DEF g
<1>7. /\ opts'.filter = g
      /\ \A h \in {"dev", "script", "offline_file", "save_file", "protocol",
                   "threshold", "stats_port", "snaplen"} : opts'[h] = opts[h]
  BY <1>1, <1>2 DEF OptionRecords, g
<1>8. /\ i + 1 \in 1 .. Len(argv) + 1 /\ i + 1 \notin Taken /\ AcceptedTo(i + 1)
      /\ \A k \in 1 .. i : WordsTo(k, i + 1) = WordsTo(k, i) \cup {i}
      /\ StringsRead(opts', oom', i + 1) /\ NumbersRead(opts', i + 1)
      /\ ProtocolRead(opts', i + 1)
  BY <1>1, <1>7, WordReads
<1>9. FilterRead(opts', oom', i + 1)
  <2>1. from \in 1 .. i + 1
    BY <1>2
  <2>2. ReadsAs(g, WordsTo(from, i + 1))
    BY <1>6, <1>8
  <2> QED BY <1>1, <1>4, <1>5, <1>7, <2>1, <2>2 DEF FilterRead
<1>10. Read(opts', oom', i')
  BY <1>1, <1>8, <1>9 DEF Read
<1> QED BY <1>1, <1>2, <1>10, ReadOn

LEMMA StartReads == ASSUME OptInv, ReadInv, ParseStart PROVE ReadInv'
<1>1. PICK ok \in BOOLEAN : opts' = init_options(ok) /\ oom' = ~ok
  BY DEF ParseStart
<1>2. mainPc = "start" /\ argv' = argv /\ mainPc' = "parse" /\ i' = i
  BY DEF ParseStart, Goto
<1>3. i = 1 /\ Len(argv) \in Nat /\ DOMAIN argv = 1 .. Len(argv)
  <2>1. argv \in Seq(STRING)
    BY OptionsAssumption DEF OptInv
  <2> QED BY <1>2, <2>1 DEF ReadInv
<1>4. 1 \in 1 .. Len(argv) + 1 /\ 1 \notin Taken
  BY <1>3, FirstNotTaken
<1>5. \A j \in DOMAIN argv : ~(j < 1)
  BY <1>3
<1>6. AcceptedTo(1)
  BY <1>5 DEF AcceptedTo
<1>7. \A flag : GivenTo(flag, 1) = {}
  BY <1>5 DEF GivenTo, Given
<1>8. \A from : WordsTo(from, 1) = {}
  BY <1>5 DEF WordsTo, Words
<1>9. \A S, d : S = {} => LastOf(S, d) = d
  BY Zenon DEF LastOf
<1>10. oom' \in BOOLEAN /\ (~ok => oom' = TRUE)
  BY <1>1
<1>11. /\ opts'.dev = (IF ok THEN "any" ELSE NULL) /\ opts'.script = NULL
       /\ opts'.offline_file = NULL /\ opts'.save_file = NULL /\ opts'.filter = NULL
       /\ opts'.protocol = "raw"
  BY <1>1 DEF init_options
<1>12. StringsRead(opts', oom', 1)
  <2> SUFFICES ASSUME NEW flag \in DOMAIN StringField
               PROVE  \/ opts'[StringField[flag]] = LastOf(GivenTo(flag, 1), Default(flag))
                      \/ (oom' = TRUE /\ opts'[StringField[flag]] = NULL)
    BY Zenon DEF StringsRead
  <2>1. LastOf(GivenTo(flag, 1), Default(flag)) = Default(flag)
    BY <1>7, <1>9, Zenon
  <2>2. \/ opts'[StringField[flag]] = Default(flag)
        \/ (oom' = TRUE /\ opts'[StringField[flag]] = NULL)
    BY <1>10, <1>11, FlagFacts DEF Default
  <2> QED BY <2>1, <2>2
<1>13. NumbersRead(opts', 1)
  BY <1>7, Zenon DEF NumbersRead
<1>14. ProtocolRead(opts', 1)
  <2>1. LastOf(GivenTo("-p", 1), "raw") = "raw"
    BY <1>7, Zenon DEF LastOf
  <2> QED BY <1>11, <2>1 DEF ProtocolRead
<1>15. FilterRead(opts', oom', 1)
  BY <1>8, <1>11 DEF FilterRead
<1>16. Read(opts', oom', i')
  BY <1>2, <1>3, <1>4, <1>6, <1>12, <1>13, <1>14, <1>15 DEF Read
<1> QED BY <1>2, <1>10, <1>16, ReadOn

\* No word at all.
LEMMA ReadsNone == ReadsAs(<<>>, {})
<1> DEFINE f == <<>>
           at == [m \in {} |-> 0]
<1>1. DOMAIN f = {} /\ at \in [{} -> {}]
  OBVIOUS
<1> HIDE DEF f, at
<1>2. ReadsAs(f, {})
  BY <1>1 DEF ReadsAs
<1> QED BY <1>2 DEF f

LEMMA ParsedReads == ASSUME OptInv, ReadInv, Parsed PROVE ReadInv'
<1>1. mainPc = "parse" /\ i > Len(argv) /\ argv' = argv /\ mainPc' = "parsed" /\ i' = i
  BY DEF Parsed, Goto
<1>2. Read(opts, oom, i) /\ oom \in BOOLEAN /\ opts \in OptionRecords
  BY <1>1 DEF ReadInv, OptInv
<1>3. Len(argv) \in Nat
  <2>1. argv \in Seq(STRING)
    BY OptionsAssumption DEF OptInv
  <2> QED BY <2>1
<1>4. i = Len(argv) + 1 /\ i \in Nat /\ i >= 1
  BY <1>1, <1>2, <1>3 DEF Read
<1>5. /\ oom' \in BOOLEAN /\ oom' = oom
      /\ opts'.filter # NULL
      /\ Read(opts', oom', i)
  <2>1. CASE opts.filter # NULL
    BY <1>2, <2>1 DEF Parsed
  <2>2. CASE opts.filter = NULL
    <3> DEFINE e == <<>>
    <3>1. opts' = [opts EXCEPT !["filter"] = e] /\ oom' = oom
      BY <1>2, <2>2 DEF Parsed, Replace
    <3>2. e \in Seq(Texts) /\ ReadsAs(e, {})
      BY ReadsNone
    <3> HIDE DEF e
    <3>3. e # NULL
      BY <3>2, PointerAssumption
    <3>4. /\ opts'.filter = e
          /\ \A h \in {"dev", "script", "offline_file", "save_file", "protocol",
                       "threshold", "stats_port", "snaplen"} : opts'[h] = opts[h]
      BY <1>2, <3>1 DEF OptionRecords
    <3>5. StringsRead(opts', oom', i)
      <4>1. \A flag \in DOMAIN StringField : opts'[StringField[flag]] = opts[StringField[flag]]
        BY <3>4, FlagFacts
      <4>2. StringsRead(opts, oom, i)
        BY <1>2 DEF Read
      <4> QED BY <3>1, <4>1, <4>2, StringsKept
    <3>6. NumbersRead(opts', i)
      <4>1. \A flag \in {"-t", "-P", "-s"} : opts'[NumberField[flag]] = opts[NumberField[flag]]
        BY <3>4, FlagFacts
      <4>2. NumbersRead(opts, i)
        BY <1>2 DEF Read
      <4> QED BY <4>1, <4>2, NumbersKept
    <3>7. ProtocolRead(opts', i)
      BY <1>2, <3>4, ProtocolKept DEF Read
    <3>8. FilterRead(opts', oom', i)
      <4>1. oom = TRUE \/ WordsTo(1, i) = {}
        BY <1>2, <2>2 DEF Read, FilterRead
      <4>2. CASE WordsTo(1, i) = {}
        <5>1. 1 \in 1 .. i /\ ~(1 > 1)
          BY <1>4
        <5>2. ReadsAs(e, WordsTo(1, i))
          BY <3>2, <4>2
        <5> QED BY <3>3, <3>4, <5>1, <5>2 DEF FilterRead
      <4>3. CASE oom = TRUE
        <5>0. i \in 1 .. i
          BY <1>4
        <5>1. WordsTo(i, i) = {}
          BY <1>4 DEF WordsTo, Words
        <5>2. ReadsAs(e, WordsTo(i, i))
          BY <3>2, <5>1
        <5> QED BY <3>1, <3>3, <3>4, <4>3, <5>0, <5>2 DEF FilterRead
      <4> QED BY <4>1, <4>2, <4>3
    <3> QED BY <1>2, <3>1, <3>3, <3>4, <3>5, <3>6, <3>7, <3>8 DEF Read
  <2> QED BY <2>1, <2>2
<1>6. PICK o, m, n : o = opts' /\ m = oom' /\ n = i
  OBVIOUS
<1>7. Read(o, m, n)'
  BY <1>1, <1>5, <1>6, SameReads
<1>8. Read(opts, oom, i)'
  BY <1>1, <1>6, <1>7
<1> QED BY <1>1, <1>4, <1>5, <1>8 DEF ReadInv

-----------------------------------------------------------------------------
(* The command line is read as written *)

\* Every step of main: the loop reads on, and what follows it ends or leaves it.
LEMMA ReadStep ==
  ASSUME StartupInv, ReadInv, [Next]_vars
  PROVE  ReadInv'
<1>0. OptInv
  BY DEF StartupInv
<1>1. CASE UNCHANGED vars
  <2>1. /\ argv' = argv /\ i' = i /\ opts' = opts /\ mainPc' = mainPc /\ oom' = oom
    BY <1>1 DEF vars, optionVars
  <2>2. CASE mainPc \in {"parse", "parsed"}
    <3>1. PICK o, m, n : o = opts /\ m = oom /\ n = i
      OBVIOUS
    <3>2. Read(o, m, n)
      BY <2>2, <3>1 DEF ReadInv
    <3>3. Read(o, m, n)'
      BY <2>1, <3>2, SameReads
    <3>4. Read(opts, oom, i)'
      BY <2>1, <3>1, <3>3
    <3> QED BY <2>1, <3>4 DEF ReadInv
  <2>3. CASE mainPc \notin {"parse", "parsed"}
    BY <2>1, <2>3 DEF ReadInv
  <2> QED BY <2>2, <2>3
<1>2. CASE mainPc' \notin {"start", "parse", "parsed"} /\ oom' = oom
  BY <1>2 DEF ReadInv
<1>3. CASE Parse
  <2>1. CASE \/ ParseNoMemory \/ Invalid \/ OutOfMemory \/ UsageOrVersion \/ NotRoot \/ Prepare
    BY <1>2, <2>1 DEF ParseNoMemory, Invalid, OutOfMemory, UsageOrVersion, NotRoot,
       Prepare, Exit, Goto
  <2> QED BY <1>0, <1>3, <2>1, StartReads, SwitchReads, StringReads, NumberReads,
             ProtocolReads, FirstWordReads, NextWordReads, ParsedReads DEF Parse
<1>4. CASE \/ CreateServer \/ CallocSniffer \/ Copy \/ CopyCrashes \/ InitLock
           \/ OpenFile \/ ReadFails \/ ReadFile \/ OpenDevice \/ Activate
           \/ first_capture_device \/ NoDevice \/ SecondFails \/ ReplaceName \/ KeepPcap
  BY <1>2, <1>4 DEF CreateServer, CallocSniffer, Copy, CopyCrashes, InitLock,
     OpenFile, ReadFails, ReadFile, OpenDevice, Activate, first_capture_device, NoDevice,
     SecondFails, ReplaceName, KeepPcap, Step, Goto, Same, Keep, SameOptions, Exit
<1>5. CASE \/ NoFilter \/ AllocProgram \/ Compile \/ SetFilter
           \/ NoDump \/ AllocDumper \/ OpenDump \/ NoScript \/ NewState \/ ScriptFails
           \/ ScriptLoaded \/ Spawn \/ Stop \/ sniffer_destroy \/ server_destroy
  BY <1>2, <1>5 DEF NoFilter, AllocProgram, Compile, SetFilter, NoDump, AllocDumper,
     OpenDump, NoScript, NewState, ScriptFails, ScriptLoaded, Spawn, Stop, sniffer_destroy,
     server_destroy, Step, Goto, Same, Keep, SameOptions, Exit
<1> QED BY <1>1, <1>3, <1>4, <1>5 DEF Next

\* ParsedAsWritten for every command line, of any length: parse_options
\* accepts only well-formed ones and reads them as written, whichever strdup
\* fails, and never takes the argument of an option for an option or a word.
THEOREM ParsedAsWrittenHolds == Spec => []ParsedAsWritten
<1>1. ASSUME StartupInit PROVE ReadInv
  BY <1>1 DEF StartupInit, OptionsInit, ReadInv
<1>2. ASSUME StartupInv, ReadInv PROVE ParsedAsWritten
  <2> SUFFICES ASSUME mainPc = "parsed"
               PROVE  /\ \A j \in DOMAIN argv \ Taken : Accepted(j)
                      /\ \A flag \in DOMAIN StringField :
                           \/ opts[StringField[flag]]
                                = LastOf(Given(flag), init_options(TRUE)[StringField[flag]])
                           \/ (oom /\ opts[StringField[flag]] = NULL)
                      /\ \A flag \in {"-t", "-P", "-s"} :
                           Given(flag) # {} =>
                             opts[NumberField[flag]] = Atoi[LastOf(Given(flag), NULL)]
                      /\ opts.protocol = LastOf(Given("-p"), "raw")
                      /\ \E from \in 1 .. Len(argv) + 1 :
                           /\ from > 1 => oom
                           /\ ReadsAs(opts.filter, {j \in Words : j >= from})
    BY DEF ParsedAsWritten
  <2>1. /\ Len(argv) \in Nat /\ DOMAIN argv = 1 .. Len(argv)
        /\ Read(opts, oom, i) /\ i = Len(argv) + 1 /\ opts.filter # NULL
    <3>1. argv \in Seq(STRING)
      BY <1>2, OptionsAssumption DEF StartupInv, OptInv
    <3> QED BY <1>2, <3>1 DEF ReadInv
  <2>2. \A j \in DOMAIN argv : j < i /\ j \in Nat
    BY <2>1
  <2>3. \A flag : GivenTo(flag, i) = Given(flag)
    BY <2>2 DEF GivenTo, Given
  <2>4. ASSUME NEW from \in Nat
        PROVE  WordsTo(from, i) = {j \in Words : j >= from}
    <3>1. \A j \in Words : (from <= j /\ j < i) <=> j >= from
      BY <2>2 DEF Words
    <3> QED BY <3>1 DEF WordsTo
  <2>5. \A j \in DOMAIN argv \ Taken : Accepted(j)
    BY <2>1, <2>2 DEF Read, AcceptedTo
  <2>6. ASSUME NEW flag \in DOMAIN StringField
        PROVE  \/ opts[StringField[flag]]
                    = LastOf(Given(flag), init_options(TRUE)[StringField[flag]])
               \/ (oom /\ opts[StringField[flag]] = NULL)
    <3>1. init_options(TRUE)[StringField[flag]] = Default(flag)
      BY FlagFacts DEF init_options, Default
    <3>2. \/ opts[StringField[flag]] = LastOf(GivenTo(flag, i), Default(flag))
          \/ (oom = TRUE /\ opts[StringField[flag]] = NULL)
      BY <2>1, Zenon DEF Read, StringsRead
    <3> QED BY <2>3, <3>1, <3>2
  <2>7. \A flag \in {"-t", "-P", "-s"} :
          Given(flag) # {} => opts[NumberField[flag]] = Atoi[LastOf(Given(flag), NULL)]
    BY <2>1, <2>3, Zenon DEF Read, NumbersRead
  <2>8. opts.protocol = LastOf(Given("-p"), "raw")
    BY <2>1, <2>3, Zenon DEF Read, ProtocolRead
  <2>9. \E from \in 1 .. Len(argv) + 1 :
          /\ from > 1 => oom
          /\ ReadsAs(opts.filter, {j \in Words : j >= from})
    <3>1. PICK from \in 1 .. i :
            (from > 1 => oom = TRUE) /\ ReadsAs(opts.filter, WordsTo(from, i))
      BY <2>1 DEF Read, FilterRead
    <3>2. WordsTo(from, i) = {j \in Words : j >= from}
      BY <2>4
    <3> QED BY <2>1, <3>1, <3>2
  <2> QED BY <2>5, <2>6, <2>7, <2>8, <2>9
<1> QED BY <1>1, <1>2, ReadStep, StartupInvHolds, PTL DEF Spec
=============================================================================
