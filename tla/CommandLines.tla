---------------------------- MODULE CommandLines -----------------------------
(***************************************************************************)
(* The command lines of cdb-lint (cdb-lint/src/cli.rs) and of the migrator *)
(* (cdb_migrator/src/cli.rs).                                              *)
(*                                                                         *)
(* An argument is [shape, name, value]: a "long" flag with what is         *)
(* attached to it by "=", or None; a "short" flag; the "end" of flags,     *)
(* "--"; any other "word"; "bytes" that are no UTF-8, or "dashed" bytes.   *)
(***************************************************************************)
EXTENDS Integers, Sequences, FiniteSets, TLC

CONSTANT None

Arg(shape, name, value) == [shape |-> shape, name |-> name, value |-> value]
Word(name) == Arg("word", name, None)
Looks(arg) == arg.shape \in {"long", "short", "end", "dashed"}
Usage == [command |-> "usage"]

-----------------------------------------------------------------------------
(* cdb-lint: the scan                                                      *)

Valued == {"profile", "encoding", "profile-file", "format", "output", "baseline", "color"}
Switches == {"deny-warnings", "quiet", "list"}
Immediate == {"help", "version"}
ShortFor == [h |-> "help", V |-> "version", o |-> "output", q |-> "quiet"]
FlagOf(arg) ==
    CASE arg.shape = "long" -> arg.name
      [] arg.shape = "short" /\ arg.name \in DOMAIN ShortFor -> ShortFor[arg.name]
      [] OTHER -> None

\* take_value: what is attached, or the next argument unless that looks like a
\* flag.  `next` is the argument after it; 0 refuses.
TakeValue(args, i) ==
    IF args[i].value # None THEN [value |-> Word(args[i].value), next |-> i + 1]
    ELSE IF i < Len(args) /\ ~Looks(args[i + 1]) THEN [value |-> args[i + 1], next |-> i + 2]
    ELSE [value |-> None, next |-> 0]

\* The accumulated flags, each once, and the words.
Raw == [given |-> <<>>, words |-> <<>>, ended |-> FALSE, named |-> TRUE]
Given(raw, flag) == flag \in DOMAIN raw.given
Give(raw, flag, value) == [raw EXCEPT !.given = (flag :> value) @@ @]
Push(raw, arg) == [raw EXCEPT !.words = Append(@, arg)]
End(raw) == [raw EXCEPT !.ended = TRUE, !.named = raw.words # <<>>]
ExplainQuery(raw) == raw.words # <<>> /\ raw.words[1] = Word("explain")

-----------------------------------------------------------------------------
(* cdb-lint: the command                                                   *)

Vocabulary ==
    [profile |-> {"simulation", "gnosis"}, encoding |-> {"json", "xml"},
     format |-> {"text", "json", "sarif"}, color |-> {"auto", "always", "never"}]
InVocabulary(given, flags) ==
    \A f \in flags \cap DOMAIN given :
        given[f].shape = "word" /\ given[f].name \in Vocabulary[f]

\* Exactly one of the two forms, whole: a built-in profile with its encoding,
\* or a descriptor.
Yardstick(given) ==
    DOMAIN given \cap {"profile", "encoding", "profile-file"}
        \in {{"profile", "encoding"}, {"profile-file"}}

CheckDefault ==
    [f \in (Valued \cup Switches) \ {"list"} |->
        IF f \in Switches THEN FALSE
        ELSE IF f = "format" THEN Word("text") ELSE IF f = "color" THEN Word("auto") ELSE None]
AssembleCheck(given, words) ==
    IF "list" \in DOMAIN given \/ Len(words) # 1 \/ ~Yardstick(given)
       \/ ~InVocabulary(given, DOMAIN Vocabulary) THEN Usage
    ELSE [command |-> "check", word |-> words[1], flags |-> given @@ CheckDefault]

\* A code or the list, never both and never neither.
AssembleExplain(given, words) ==
    IF DOMAIN given \ {"list"} # {} \/ Len(words) > 1
       \/ (words # <<>> /\ words[1].shape = "bytes") \/ (words = <<>>) # ("list" \in DOMAIN given)
    THEN Usage
    ELSE [command |-> "explain", word |-> IF words = <<>> THEN None ELSE words[1],
          flags |-> ("list" :> (words = <<>>))]

\* A word is a subcommand only in front, and not after a leading "--".
Assemble(raw) ==
    LET named(name) == raw.named /\ raw.words # <<>> /\ raw.words[1] = Word(name)
    IN  CASE named("explain") -> AssembleExplain(raw.given, Tail(raw.words))
          [] named("check") -> AssembleCheck(raw.given, Tail(raw.words))
          [] OTHER -> AssembleCheck(raw.given, raw.words)

RECURSIVE Scan(_, _, _)
Scan(args, i, raw) ==
    IF i > Len(args) THEN Assemble(raw)
    ELSE LET arg == args[i]
             flag == FlagOf(arg)
             taken == TakeValue(args, i)
         IN  CASE raw.ended \/ arg.shape \in {"word", "bytes"} -> Scan(args, i + 1, Push(raw, arg))
               [] ~raw.ended /\ arg.shape = "dashed" -> Usage
               [] ~raw.ended /\ arg.shape = "end" -> Scan(args, i + 1, End(raw))
               [] ~raw.ended /\ flag \in Immediate ->
                      IF arg.value = None THEN [command |-> flag] ELSE Usage
               [] ~raw.ended /\ flag \in Valued ->
                      IF taken.next = 0 \/ Given(raw, flag) THEN Usage
                      ELSE Scan(args, taken.next, Give(raw, flag, taken.value))
               [] ~raw.ended /\ flag \in Switches ->
                      IF arg.value # None \/ Given(raw, flag) THEN Usage
                      ELSE Scan(args, i + 1, Give(raw, flag, TRUE))
               [] OTHER -> IF ExplainQuery(raw) THEN Scan(args, i + 1, Push(raw, arg)) ELSE Usage
ParseLint(args) == Scan(args, 1, Raw)

\* What is written before the end of flags is heeded: an accepted check carries
\* every flag of its line with the value written with it, once, and a flag that
\* it does not carry was not written; help and version are answered only when
\* asked for.  No flag is swallowed as another's value, and none overrides.
FirstEnd(args) ==
    LET ends == {i \in DOMAIN args : args[i].shape = "end"}
    IN  IF ends = {} THEN Len(args) + 1 ELSE CHOOSE i \in ends : \A j \in ends : i <= j
LintLineHeeded(args) ==
    LET command == ParseLint(args)
        flagged == {i \in 1 .. FirstEnd(args) - 1 : Looks(args[i])}
        asked(flag) == \E i \in flagged : FlagOf(args[i]) = flag
    IN  /\ command.command = "check" =>
               /\ \A i \in flagged : FlagOf(args[i]) \in DOMAIN command.flags
               /\ \A i, j \in flagged : FlagOf(args[i]) = FlagOf(args[j]) => i = j
               /\ \A i \in flagged :
                      command.flags[FlagOf(args[i])]
                          = IF FlagOf(args[i]) \in Switches THEN args[i].value = None
                            ELSE IF args[i].value # None THEN Word(args[i].value) ELSE args[i + 1]
               /\ \A f \in DOMAIN command.flags :
                      command.flags[f] # CheckDefault[f] => asked(f)
               /\ (command.flags["profile"] = None) # (command.flags["profile-file"] = None)
               /\ (command.flags["profile"] = None) = (command.flags["encoding"] = None)
        /\ command.command = "explain" => \A f \in Valued \cup Switches : asked(f) => f = "list"
        /\ command.command \in Immediate => asked(command.command)

-----------------------------------------------------------------------------
(* The migrator                                                            *)

MigratorValued ==
    {"id", "title", "description", "contact", "timestamp", "metadata-file", "rename-map"}
MigratorSwitches == {"dry-run", "carry-extras", "skip-extras"}
Bare(arg, flags) == arg.shape = "long" /\ arg.value = None /\ arg.name \in flags
Help == Arg("long", "help", None)
\* require_path: not empty, and not an option.
PathLike(arg) == arg.shape = "word" /\ arg.name # ""
\* A value may begin with one dash, never with two.
ValueLike(arg) == arg.shape \in {"word", "short"}

RECURSIVE Options(_, _, _)
Options(args, i, given) ==
    IF i > Len(args) THEN [command |-> "migrate", root |-> args[2], out |-> args[3], flags |-> given]
    ELSE LET arg == args[i]
         IN  IF ~Bare(arg, MigratorValued \cup MigratorSwitches) \/ arg.name \in DOMAIN given
                 \/ {"carry-extras", "skip-extras"} \subseteq {arg.name} \cup DOMAIN given THEN Usage
             ELSE IF arg.name \in MigratorSwitches
             THEN Options(args, i + 1, (arg.name :> TRUE) @@ given)
             ELSE IF i = Len(args) \/ ~ValueLike(args[i + 1]) THEN Usage
             ELSE Options(args, i + 2, (arg.name :> args[i + 1]) @@ given)

\* run_os and execute, up to what is read from the disk.
ParseMigrator(args) ==
    IF \E i \in DOMAIN args : args[i].shape \in {"bytes", "dashed"} THEN Usage
    ELSE IF args = <<Help>> \/ (Len(args) = 2 /\ args[1] \in {Word("inventory"), Word("migrate")}
                                   /\ args[2] = Help) THEN [command |-> "help"]
    ELSE IF Len(args) = 2 /\ args[1] = Word("inventory")
    THEN IF PathLike(args[2]) THEN [command |-> "inventory", root |-> args[2]] ELSE Usage
    ELSE IF Len(args) >= 3 /\ args[1] = Word("migrate") /\ PathLike(args[2]) /\ PathLike(args[3])
    THEN Options(args, 4, <<>>)
    ELSE Usage

\* An accepted migration carries every option of its line with its own value,
\* files are never both carried and skipped, and every argument is accounted
\* for: the three in front, a switch each, two for each value.
MigratorLineHeeded(args) ==
    LET command == ParseMigrator(args)
    IN  command.command = "migrate" =>
            /\ \A f \in DOMAIN command.flags :
                   \E i \in 4 .. Len(args) :
                       /\ Bare(args[i], {f})
                       /\ f \in MigratorValued => args[i + 1] = command.flags[f]
            /\ Len(args) = 3 + Cardinality(DOMAIN command.flags)
                             + Cardinality(DOMAIN command.flags \cap MigratorValued)
            /\ ~({"carry-extras", "skip-extras"} \subseteq DOMAIN command.flags)
=============================================================================
