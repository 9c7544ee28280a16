---------------------------- MODULE GateContent ----------------------------
(***************************************************************************)
(* The gate, and what devices make of the texts it lets through.  The      *)
(* classifier reads a text once, as a whole; a device reads it line by     *)
(* line, splits it at separators, expands abbreviations and, in a Junos    *)
(* payload, keeps a current level.                                         *)
(***************************************************************************)
EXTENDS GateCall, CommandText

Texts == UNION {UNION {Items(in.args, a) : a \in DOMAIN in.args} : in \in Calls}

Words == UNION {SE!ToSet(t) : t \in Texts \ {NonString}}

\* The gate's classifier is the one of CommandText.
ASSUME ClassifierAssumption ==
  /\ \A t \in Texts :
       CommandClass(t) = IF t = NonString THEN "EXEC_ARBITRARY" ELSE ClassifyCommand(t)
  /\ \A t \in Texts \ {NonString} :
       /\ t \in Seq(Words)
       /\ \A f \in {"cli", "set", "text", "xml"} : BadConfig(t, f) = ~CheckConfigText(t, f)
  /\ DataFormats = [t \in {<<"text">>, <<"xml">>} |-> t[1]]

\* The loader's validateCapability: a meta-tool's class is its table's alone.
ASSUME MetaToolsAssumption ==
  \A s \in DOMAIN Profiles : \A t \in DOMAIN Profiles[s] :
    Profiles[s][t].capabilityParam # NoParam
      => Profiles[s][t].class = "EXEC_ARBITRARY" /\ Profiles[s][t].commandParams = {}

-----------------------------------------------------------------------------
(* What a device does (external) *)

\* Where a command line, and a line of a CLI payload, may be split.
CommandSeparators == {";", "|", "&"}

PayloadSeparators == {";"}

\* The verbs that docs/specs/classification.md 11.2 gives the CLIs behind the
\* upstreams, by what each does from configuration mode.
CliVerbs ==
  LET leave    == {"end", "exit", "quit", "abort", "configure", "commit", "rollback", "return",
                   "system-view", "admin"}
      shells   == {"do", "run", "exec", "execute", "enable", "disable", "bash", "shell", "start",
                   "tclsh", "python", "python3", "guestshell", "op"}
      state    == {"reload", "reboot", "halt", "reset", "restart", "zeroize", "zerotouch", "copy",
                   "write", "delete", "erase", "format", "rename", "mkdir", "rmdir", "clear",
                   "request", "load", "save", "install", "diagnose", "debug", "undebug", "test",
                   "tcpdump"}
      eos      == {"ping", "traceroute", "clock", "send", "watch", "logout", "terminal", "agent"}
      reads    == {"show", "more"}
      hosts    == {"ssh", "telnet", "connect"}
      aliases  == {"alias", "cli"}
      schedule == {"event", "event-handler", "schedule", "scheduler", "kron", "daemon", "command"}
  IN leave \cup shells \cup state \cup eos \cup reads \cup hosts \cup aliases \cup schedule

\* What IOS runs at a login, and the keywords an abbreviation must tell it from.
Autocommand == "autocommand"

AutoKeywords == {"autobaud", "autohangup", "autoselect"}

\* The Junos statements that change a path of the configuration; the loader may
\* run anything else.
JunosStatements ==
  {"set", "delete", "activate", "deactivate", "annotate", "insert", "rename", "copy", "protect",
   "unprotect"}

\* Event policies, scripts and extensions: what they hold is run.
JunosRunners == {"event-options", "execute-commands", "scripts", "extensions"}

Vocabulary == CliVerbs \cup JunosRunners \cup {Autocommand}

\* Around a word, and not of it.
Quoting == {"'", "\"", "\\", "[", "]"}

EmptyString == ""

CommentMark == "!"

EntityMark == "<!"

\* What a string is made of.
ASSUME StringsAssumption ==
  /\ \A w \in CommandSeparators : WordHasMeta(w)
  /\ \A w \in PayloadSeparators : ";" \in SE!ToSet(Chars(w))
  /\ \A w \in {"ping", "traceroute", "tracepath", "monitor"} :
       ~AbbreviatesAny(w, {"show", "display", "get"})

ASSUME CharsAssumption ==
  /\ \A w \in Words \cup Vocabulary :
       /\ Len(w) \in Nat
       /\ \A i, j \in 1..Len(w) : i <= j =>
            /\ Len(SubSeq(w, i, j)) = j - i + 1 /\ SubSeq(w, i, j) # EmptyString
            /\ \A m \in i..j :
                 SubSeq(SubSeq(w, i, j), m - i + 1, m - i + 1) = SubSeq(w, m, m)
  /\ \A k \in Vocabulary : \A i \in 1..Len(k) : SubSeq(k, i, i) \in KeptChars
  /\ Quoting \cap KeptChars = {}
  /\ \A k \in AutoKeywords : \A n \in 1..4 :
       n <= Len(k) /\ SubSeq(k, 1, n) = SubSeq(Autocommand, 1, n)
  /\ Len(CommentMark) = 1 /\ Len(EntityMark) = 2

\* The statements a text may run as: its words between line breaks and
\* separators.
Statements(text, separators) ==
  SE!ToSet(Split(text, {NL} \cup separators)) \ {<<>>}

\* One of its counts is the one a device honours.
EndsByItself(s) ==
  /\ \E i \in 1..(Len(s) - 1) : s[i] = "count"
  /\ \A i \in DOMAIN s : s[i] = "count" =>
       i < Len(s) /\ AllDigits(s[i + 1]) /\ Atoi(s[i + 1]) \in 1..MaxMonitorCount

OnlyReads(s) ==
  /\ \/ s[1] \in {"show", "get", "display", "ping", "traceroute", "tracepath"}
     \/ Len(s) > 1 /\ s[1] = "monitor" /\ s[2] = "traffic" /\ EndsByItself(s)
  /\ \A i \in 2..Len(s) : ~HasPrefix(s[i], "-")

MayPrintConfig(s) ==
  /\ AbbreviatesAny(s[1], {"show", "display", "get"})
  /\ \/ Len(s) = 1
     \/ AbbreviatesAny(s[2], ConfigKeywords)
     \/ Len(s) > 2 /\ IsAbbrevOf(s[2], "system") /\ AbbreviatesAny(s[3], SystemConfigKeywords)

\* At its p-th character a word is an abbreviation of the keyword k, up to the
\* word's end or to what no name has.
Spells(w, p, k) ==
  \E n \in 1..Len(k) :
    /\ p + n - 1 <= Len(w) /\ SubSeq(w, p, p + n - 1) = SubSeq(k, 1, n)
    /\ p + n - 1 = Len(w) \/ Chars(w)[p + n] \notin NameChars

\* A word is the first n letters of k, quoted or not.
Abbreviation(w, k, n) ==
  \E at \in 1..(Len(w) - n + 1) :
    /\ SubSeq(w, at, at + n - 1) = SubSeq(k, 1, n)
    /\ \A i \in 1..Len(w) : i \in at..(at + n - 1) \/ Chars(w)[i] \in Quoting

Means(w, k) == \E n \in 1..Len(k) : Abbreviation(w, k, n)

\* No other keyword starts as the abbreviation does.
RunsAtLogin(w) ==
  \E n \in 1..Len(Autocommand) :
    /\ Abbreviation(w, Autocommand, n)
    /\ \A k \in AutoKeywords :
         n <= Len(k) => SubSeq(k, 1, n) # SubSeq(Autocommand, 1, n)

\* A statement of a CLI payload that ends the session, runs something now or
\* makes a later login run it.  A ";" inside a word starts a statement too.
LeavesSession(s) ==
  \/ /\ Chars(s[1])[1] # CommentMark
     /\ \/ \E k \in CliVerbs : Spells(s[1], 1, k)
        \/ \E w \in SE!ToSet(s) : RunsAtLogin(w)
  \/ \E w \in SE!ToSet(s) : \E p \in 2..Len(w) :
       Chars(w)[p - 1] = ";" /\ \E k \in CliVerbs : Spells(w, p, k)

\* A Junos set payload, line by line: "top" and "up" run what follows them at
\* the level they go to, "edit" goes down, and any other statement touches
\* the path from the current level.
RunStatement(st, level, words) ==
  CASE words = <<>> -> [st EXCEPT !.level = level]
    [] words # <<>> /\ words[1] = "edit" -> [st EXCEPT !.level = level \o Tail(words)]
    [] words # <<>> /\ words[1] \in JunosStatements ->
         [st EXCEPT !.touched = @ \cup {level \o Tail(words)}]
    [] OTHER -> [st EXCEPT !.ran = TRUE]

RunLine(st, line) ==
  IF line = <<>> \/ HasPrefix(line[1], "#") THEN st
  ELSE IF line[1] = "top" THEN RunStatement(st, <<>>, Tail(line))
  ELSE IF line[1] = "up" THEN
    LET counted == Len(line) > 1 /\ AllDigits(line[2])
        n       == IF counted THEN Atoi(line[2]) ELSE 1
    IN RunStatement(st, SubSeq(st.level, 1, Len(st.level) - n),
                    SubSeq(line, IF counted THEN 3 ELSE 2, Len(line)))
  ELSE RunStatement(st, st.level, line)

Unrun == [level |-> <<>>, touched |-> {}, ran |-> FALSE]

RunLines(lines) ==
  LET st[i \in 0..Len(lines)] == IF i = 0 THEN Unrun ELSE RunLine(st[i - 1], lines[i])
  IN st[Len(lines)]

\* Event policies are at the top of a configuration or of a group, scripts and
\* extensions under its system.
IsRun(path) ==
  \E i \in 1..Len(path) :
    \/ Means(path[i], "event-options") \/ Means(path[i], "execute-commands")
    \/ /\ i < Len(path) /\ Means(path[i], "system")
       /\ Means(path[i + 1], "scripts") \/ Means(path[i + 1], "extensions")

MakesSomethingRun(text) ==
  LET st == RunLines(Lines(text)) IN st.ran \/ \E path \in st.touched : IsRun(path)

\* A word of text or xml data that holds a whole name.
HoldsName(w, k) ==
  \E at \in 1..(Len(w) - Len(k) + 1) :
    /\ SubSeq(w, at, at + Len(k) - 1) = k
    /\ at = 1 \/ Chars(w)[at - 1] \notin NameChars
    /\ at + Len(k) - 1 = Len(w) \/ Chars(w)[at + Len(k)] \notin NameChars

\* An entity could spell any name.
DeclaresEntity(w) == \E at \in 1..(Len(w) - 1) : SubSeq(w, at, at + 1) = EntityMark

Escapes(text, loadedAs) ==
  CASE loadedAs = "cli" -> \E s \in Statements(text, PayloadSeparators) : LeavesSession(s)
    [] loadedAs = "set" -> MakesSomethingRun(text)
    [] OTHER -> \E w \in SE!ToSet(text) \ {NL} :
                  \/ \E k \in JunosRunners : HoldsName(w, k)
                  \/ loadedAs = "xml" /\ DeclaresEntity(w)

\* junos-mcp-server loads what lower-cases to text or xml as data.
LoadedAs(spec, args) ==
  IF ~spec.junosLoad THEN "cli"
  ELSE IF /\ "config_format" \in DOMAIN args
          /\ args["config_format"].kind = "string"
          /\ args["config_format"].items[1] \in {<<"text">>, <<"xml">>}
  THEN args["config_format"].items[1][1] ELSE "set"

-----------------------------------------------------------------------------
(* Properties *)

\* A call that runs commands and is let through as a read (classifyCommands)
\* has commands, and however a device splits them into statements, each is a
\* read (a monitor traffic with a count that ends it); as READ_OPERATIONAL
\* none, however abbreviated, asks for a subject that prints configuration.
ReadsOnlyRead ==
  /\ Forwarded /\ InProfile(call)
  /\ SpecOf(call).class \in {"EXEC_ARBITRARY", "READ_OPERATIONAL"}
  /\ SpecOf(call).commandParams # {}
  /\ ruling.class # "EXEC_ARBITRARY"
  => LET cmds  == Commands(SpecOf(call), call.args)
         stmts == UNION {Statements(c, CommandSeparators) : c \in cmds}
     IN /\ cmds # {}
        /\ SpecOf(call).class = "EXEC_ARBITRARY" => ~SpecOf(call).neverDowngrade
        /\ \A s \in stmts : OnlyReads(s)
        /\ ruling.class = "READ_OPERATIONAL" => \A s \in stmts : ~MayPrintConfig(s)

\* A call of a configuration tool that is let through as less than
\* EXEC_ARBITRARY (checkConfigPayload) stays a write: no statement of its
\* payload is a documented way to leave configuration mode, to run something
\* from it or to have it run later, whatever comments, separators, quotes,
\* levels and abbreviations the payload is written with.  Documented is what
\* CliVerbs, autocommand and the Junos hierarchies say; a verb that
\* classification.md 11.2 lacks, an operator's alias or menu (11.5) and an
\* abbreviated text load (11.3) stay the repository's open residuals.  (The
\* payload of a tool whose own class is EXEC_ARBITRARY is not checked: its
\* commands alone give its class.)
WriteStaysInSession ==
  /\ Forwarded /\ InProfile(call)
  /\ SpecOf(call).class # "EXEC_ARBITRARY"
  /\ ruling.class # "EXEC_ARBITRARY"
  => LET spec == SpecOf(call)
     IN \A text \in ConfigLines(spec, call.args) : ~Escapes(text, LoadedAs(spec, call.args))
=============================================================================
