------------------------------ MODULE Options ------------------------------
(***************************************************************************)
(* The command line: parse_options, init_options and free_options, one     *)
(* step per iteration of the loop, and the checks of main before the       *)
(* server is created.  `live' counts the allocations that each field of    *)
(* struct options owns.  The strdup calls of the loop are not checked by   *)
(* the code: a failure leaves the field NULL.                              *)
(***************************************************************************)
EXTENDS Integers, Sequences, FiniteSets, SequencesExt

CONSTANTS
  NULL,
  Argvs,         \* the command lines, without the name of the program
  Atoi           \* the number each argument reads as

ASSUME OptionsAssumption ==
  /\ Argvs \subseteq Seq(STRING)
  /\ \A a \in Argvs : \A j \in DOMAIN a : Atoi[a[j]] \in Int

VARIABLES argv, i, opts, live, mainPc, status, oom
optionVars == <<argv, i, opts, live, mainPc, status, oom>>

Protocols == {"raw", "redis", "memcached", "http"}
StringField ==
  [flag \in {"-i", "-S", "-r", "-w"} |->
     CASE flag = "-i" -> "dev" [] flag = "-S" -> "script"
       [] flag = "-r" -> "offline_file" [] flag = "-w" -> "save_file"]
NumberField ==
  [flag \in {"-B", "-t", "-P", "-s"} |->
     CASE flag = "-B" -> "buf_size" [] flag = "-t" -> "threshold"
       [] flag = "-P" -> "stats_port" [] flag = "-s" -> "snaplen"]
SwitchField ==
  [flag \in {"-v", "-h", "-A"} |->
     CASE flag = "-v" -> "print_version" [] flag = "-h" -> "print_usage"
       [] flag = "-A" -> "ascii"]

Flags == DOMAIN StringField \cup DOMAIN NumberField \cup DOMAIN SwitchField \cup {"-p"}
Dashed == Flags \cup {"-x"}     \* "-x" stands for what begins with a dash otherwise
Strings == {"dev", "filter", "script", "offline_file", "save_file"}

\* The strings a field may point to: an argument or a name of a device.
Texts == (UNION {Range(a) : a \in Argvs}) \cup {"any", "replacement"}

\* struct options; the words of the filter are kept apart.
OptionRecords ==
  [dev : Texts \cup {NULL}, ascii : {0, 1}, filter : Seq(Texts) \cup {NULL},
   offline_file : Texts \cup {NULL}, save_file : Texts \cup {NULL},
   script : Texts \cup {NULL}, snaplen : Int, buf_size : Int, print_usage : {0, 1},
   print_version : {0, 1}, protocol : Protocols, threshold : Int, stats_port : Int]

\* The null pointer is no string and no struct.
ASSUME PointerAssumption ==
  NULL \notin Texts /\ NULL \notin Seq(Texts) /\ NULL \notin OptionRecords

OptionsInit ==
  /\ argv \in Argvs
  /\ i = 1 /\ opts = NULL /\ mainPc = "start"
  /\ live = [f \in Strings \cup {"opts"} |-> 0]
  /\ status = NULL        \* what main returns
  /\ oom = FALSE          \* has an unchecked allocation failed

Goto(pc) == mainPc' = pc /\ UNCHANGED <<argv, status>>
Owns(x) == IF x = NULL THEN 0 ELSE 1

Released(f) == live[f] - Owns(opts[f])

\* A field is freed and given a new string, or NULL if strdup fails.
Replace(f, s, ok) ==
  /\ opts' = [opts EXCEPT ![f] = IF ok THEN s ELSE NULL]
  /\ live' = [live EXCEPT ![f] = Released(f) + (IF ok THEN 1 ELSE 0)]
  /\ oom' = (oom \/ ~ok)

-----------------------------------------------------------------------------
(* parse_options *)

init_options(ok) ==
  [dev |-> IF ok THEN "any" ELSE NULL, ascii |-> 0, filter |-> NULL,
   offline_file |-> NULL, save_file |-> NULL, script |-> NULL, snaplen |-> 1500,
   buf_size |-> 512 * 1024 * 1024, print_usage |-> 0, print_version |-> 0,
   protocol |-> "raw", threshold |-> 0, stats_port |-> 33333]

\* What is still allocated after free_options.
free_options ==
  [f \in DOMAIN live |-> IF f = "opts" THEN live[f] - 1 ELSE Released(f)]

ParseStart ==
  /\ mainPc = "start"
  /\ \E ok \in BOOLEAN :
       /\ opts' = init_options(ok)
       /\ live' = [live EXCEPT !["opts"] = 1, !["dev"] = IF ok THEN 1 ELSE 0]
       /\ oom' = ~ok
  /\ Goto("parse") /\ UNCHANGED i

ParseNoMemory ==
  /\ mainPc = "start"
  /\ mainPc' = "exit" /\ status' = 1
  /\ UNCHANGED <<argv, i, opts, live, oom>>

More == mainPc = "parse" /\ i <= Len(argv)
lastarg == i = Len(argv)

Switch ==
  /\ More /\ argv[i] \in DOMAIN SwitchField
  /\ opts' = [opts EXCEPT ![SwitchField[argv[i]]] = 1]
  /\ i' = i + 1 /\ Goto("parse") /\ UNCHANGED <<live, oom>>

StringOption ==
  /\ More /\ argv[i] \in DOMAIN StringField /\ ~lastarg
  /\ \E ok \in BOOLEAN : Replace(StringField[argv[i]], argv[i + 1], ok)
  /\ i' = i + 2 /\ Goto("parse")

\* The product is exact for buffers below 2^21 KiB.
ReadNumber(flag, arg) == IF flag = "-B" THEN Atoi[arg] * 1024 ELSE Atoi[arg]

NumberOption ==
  /\ More /\ argv[i] \in DOMAIN NumberField /\ ~lastarg
  /\ opts' = [opts EXCEPT ![NumberField[argv[i]]] = ReadNumber(argv[i], argv[i + 1])]
  /\ i' = i + 2 /\ Goto("parse") /\ UNCHANGED <<live, oom>>

ProtocolOption ==
  /\ More /\ argv[i] = "-p" /\ ~lastarg /\ argv[i + 1] \in Protocols
  /\ opts' = [opts EXCEPT !.protocol = argv[i + 1]]
  /\ i' = i + 2 /\ Goto("parse") /\ UNCHANGED <<live, oom>>

FirstWord ==
  /\ More /\ argv[i] \notin Dashed /\ opts.filter = NULL
  /\ \E ok \in BOOLEAN : Replace("filter", <<argv[i]>>, ok)
  /\ i' = i + 1 /\ Goto("parse")

\* Mutant: each word replaces the words before it.
LastWordOnly(filter, word) == <<word>>

Joined(filter, word) == Append(filter, word)

NextWord ==
  /\ More /\ argv[i] \notin Dashed /\ opts.filter # NULL
  /\ opts' = [opts EXCEPT !.filter = Joined(@, argv[i])]
  /\ i' = i + 1 /\ Goto("parse") /\ UNCHANGED <<live, oom>>

Parsed ==
  /\ mainPc = "parse" /\ i > Len(argv)
  /\ IF opts.filter = NULL THEN Replace("filter", <<>>, TRUE) ELSE UNCHANGED <<opts, live, oom>>
  /\ Goto("parsed") /\ UNCHANGED i

\* Every way out of main frees the options.
Exit(code) ==
  /\ mainPc' = "exit" /\ status' = code
  /\ live' = free_options /\ opts' = NULL
  /\ UNCHANGED <<argv, i, oom>>

Invalid ==
  /\ More
  /\ \/ argv[i] \in Dashed \ Flags
     \/ argv[i] \in Flags \ DOMAIN SwitchField /\ lastarg
     \/ argv[i] = "-p" /\ ~lastarg /\ argv[i + 1] \notin Protocols
  /\ Exit(1)

\* realloc or the strdup of the empty filter fails.
OutOfMemory ==
  /\ mainPc = "parse"
  /\ IF i <= Len(argv) THEN argv[i] \notin Dashed /\ opts.filter # NULL ELSE opts.filter = NULL
  /\ Exit(1)

-----------------------------------------------------------------------------
(* main, up to the creation of the server *)

UsageOrVersion ==
  /\ mainPc = "parsed" /\ opts.print_usage + opts.print_version > 0
  /\ Exit(0)

NotRoot ==
  /\ mainPc = "parsed" /\ opts.print_usage + opts.print_version = 0
  /\ opts.offline_file = NULL
  /\ Exit(1)

Clamped(snaplen, protocol) ==
  LET atLeast == IF snaplen < 64 THEN 64 ELSE snaplen
  IN  IF protocol # "raw" /\ atLeast > 256 THEN 256 ELSE atLeast

Prepare ==
  /\ mainPc = "parsed" /\ opts.print_usage + opts.print_version = 0
  /\ opts' = [opts EXCEPT !.snaplen = Clamped(opts.snaplen, opts.protocol)]
  /\ Goto("create") /\ UNCHANGED <<i, live, oom>>

Parse ==
  \/ ParseStart \/ ParseNoMemory \/ Switch \/ StringOption \/ NumberOption
  \/ ProtocolOption \/ FirstWord \/ NextWord \/ Parsed \/ Invalid \/ OutOfMemory
  \/ UsageOrVersion \/ NotRoot \/ Prepare

-----------------------------------------------------------------------------
(* Properties *)

\* Each string is owned by its field and by nothing else: an option given twice
\* leaks nothing, and every exit of parse_options and main, whichever
\* argument was wrong or allocation failed, frees exactly what there is.
OptionsOwned ==
  /\ live["opts"] = Owns(opts)
  /\ \A f \in Strings : live[f] = IF opts = NULL THEN 0 ELSE Owns(opts[f])

Consuming == Flags \ DOMAIN SwitchField     \* they consume the argument behind them

\* The arguments that an option before them consumed.  Of several options in a
\* row, the second is the argument of the first, the fourth that of the third.
Taken ==
  {j \in DOMAIN argv :
     \E k \in 1 .. j - 1 :
       /\ \A m \in k .. j - 1 : argv[m] \in Consuming
       /\ k > 1 => argv[k - 1] \notin Consuming
       /\ (j - k) % 2 = 1}

Given(flag) == {j \in DOMAIN argv \ Taken : argv[j] = flag}

\* The argument at j may stand where it is.
Accepted(j) ==
  /\ argv[j] \in Dashed => argv[j] \in Flags
  /\ argv[j] \in Consuming => j < Len(argv)
  /\ argv[j] = "-p" => argv[j + 1] \in Protocols

\* The argument of the last option of `places'.
LastOf(places, default) ==
  IF places = {} THEN default
  ELSE argv[(CHOOSE j \in places : \A k \in places : k <= j) + 1]

Words == {j \in DOMAIN argv \ Taken : argv[j] \notin Dashed}

\* The filter consists of the words at these places, in their order.
ReadsAs(filter, places) ==
  \E at \in [DOMAIN filter -> places] :
    /\ \A n \in DOMAIN filter : filter[n] = argv[at[n]]
    /\ \A m, n \in DOMAIN filter : m < n => at[m] < at[n]
    /\ \A p \in places : \E n \in DOMAIN filter : at[n] = p

\* parse_options accepts only well-formed command lines, and reads them as
\* written: the last occurrence of an option counts, an argument that
\* looks like an option is still an argument, and all other words, wherever they
\* stand, form the filter in their order.  A failed strdup never leaves an
\* older value behind; of the filter it loses the words up to there.
ParsedAsWritten ==
  mainPc = "parsed" =>
    /\ \A j \in DOMAIN argv \ Taken : Accepted(j)
    /\ \A flag \in DOMAIN StringField :
         LET f == StringField[flag]
         IN  \/ opts[f] = LastOf(Given(flag), init_options(TRUE)[f])
             \/ oom /\ opts[f] = NULL
    /\ \A flag \in {"-t", "-P", "-s"} :
         Given(flag) # {} => opts[NumberField[flag]] = Atoi[LastOf(Given(flag), NULL)]
    /\ opts.protocol = LastOf(Given("-p"), "raw")
    /\ \E from \in 1 .. Len(argv) + 1 :
         /\ from > 1 => oom
         /\ ReadsAs(opts.filter, {j \in Words : j >= from})
=============================================================================
