---------------------------- MODULE CommandText ----------------------------
(***************************************************************************)
(* internal/classify/command.go and config.go: what class a CLI command    *)
(* has, and whether a config payload stays in configuration mode.          *)
(*                                                                         *)
(* A text is the sequence of its words, lower-cased as the code and the    *)
(* devices do; NL, a word of its own, stands for a line break.  The code   *)
(* looks inside words (prefixes, punctuation), and so does this module:    *)
(* words are strings.                                                      *)
(***************************************************************************)
EXTENDS Integers, Sequences, FiniteSets, FiniteSetsExt

SE == INSTANCE SequencesExt

CONSTANTS
  NL,             \* a line break (CR, LF or CRLF)
  BadWords,       \* words with a control character or a byte of 0x80 or above
  MaxTextLen      \* maxCommandLen and maxConfigLineLen, in bytes

Chars(w) == [i \in 1..Len(w) |-> SubSeq(w, i, i)]

HasPrefix(k, w) == Len(w) <= Len(k) /\ SubSeq(k, 1, Len(w)) = w

IsAbbrevOf(w, k) == w # "" /\ HasPrefix(k, w)

AbbreviatesAny(w, keywords) == \E k \in keywords : IsAbbrevOf(w, k)

Digits == <<"0", "1", "2", "3", "4", "5", "6", "7", "8", "9">>

Letters == {"a", "b", "c", "d", "e", "f", "g", "h", "i", "j", "k", "l", "m", "n", "o", "p", "q",
            "r", "s", "t", "u", "v", "w", "x", "y", "z"}

LowerAlnum == Letters \cup SE!ToSet(Digits)

AllDigits(w) == w # "" /\ SE!ToSet(Chars(w)) \subseteq SE!ToSet(Digits)

\* strconv.Atoi of a word of digits.
Atoi(w) ==
  LET n[i \in 0..Len(w)] ==
        IF i = 0 THEN 0
        ELSE 10 * n[i - 1] + (CHOOSE d \in 1..10 : Digits[d] = Chars(w)[i]) - 1
  IN n[Len(w)]

Place(lines, w, at) ==
  IF w \in at THEN Append(lines, <<>>) ELSE [lines EXCEPT ![Len(lines)] = Append(@, w)]

\* The words between those of a set.
Split(text, at) ==
  LET lines[i \in 0..Len(text)] ==
        IF i = 0 THEN <<<<>>>> ELSE Place(lines[i - 1], text[i], at)
  IN lines[Len(text)]

\* The bytes of a text, its words one blank apart.
TextLen(text) == MapThenSumSet(LAMBDA i : Len(text[i]) + 1, DOMAIN text) - 1

TooLong(text) == TextLen(text) > MaxTextLen

\* Mutant: a line break is white space.
HasBadBytesCollapsed(text) == SE!ToSet(text) \cap BadWords # {}

\* checkBytes: a line break left in a text is a control character too.
HasBadBytes(text) == SE!ToSet(text) \cap ({NL} \cup BadWords) # {}

-----------------------------------------------------------------------------
(* Commands *)

BlocklistStart ==
  {"configure", "config", "conf", "edit", "set", "delete", "no", "commit", "rollback", "load",
   "save", "write", "wr", "copy", "erase", "format", "reload", "rel", "relo", "request",
   "restart", "shutdown", "clear", "reset", "debug", "undebug", "install", "boot", "zeroize",
   "reboot", "halt", "power", "activate", "deactivate", "license", "crypto", "archive", "exec",
   "start", "bash", "python", "guestshell", "tclsh", "run", "enable", "feature", "dockerd",
   "scp", "tftp", "ssh", "ftp", "telnet", "execute", "diagnose", "file", "test"}

BlockedWords ==
  {"configure", "edit", "set", "delete", "rollback", "commit", "wr", "wri", "writ", "write",
   "write-file", "read-file", "copy", "rel", "relo", "reloa", "reload", "reboot", "shutdown",
   "clear", "reset", "format", "erase", "debug", "undebug", "zeroize", "tclsh", "bash",
   "python", "guestshell"}

BlockedPair(a, b) ==
  \/ a = "request" /\ b = "system"
  \/ a = "admin" /\ b \in {"save", "reboot"}
  \/ a = "start" /\ b = "shell"
  \/ Len(a) >= 4 /\ IsAbbrevOf(a, "configure") /\ IsAbbrevOf(b, "terminal")

Blocked(text) ==
  \/ text[1] \in BlocklistStart
  \/ Len(text) > 1 /\ text[1] = "monitor" /\ text[2] = "start"
  \/ SE!ToSet(text) \cap BlockedWords # {}
  \/ \E i \in 1..(Len(text) - 1) : BlockedPair(text[i], text[i + 1])

\* The back quote is the only one missing: TLA+ has no string for it.
ShellMeta ==
  {"|", "<", ">", ";", "&", "'", "{", "}", "*", "?", "[", "]", "~", "\\", "\""}

\* A $ may only end a word.
WordHasMeta(w) ==
  \/ SE!ToSet(Chars(w)) \cap ShellMeta # {}
  \/ \E i \in 1..(Len(w) - 1) : Chars(w)[i] = "$"

HasShellMeta(text) == \E w \in SE!ToSet(text) : WordHasMeta(w)

HasLeadingDash(text) == \E i \in 2..Len(text) : HasPrefix(text[i], "-")

ConfigKeywords ==
  {"running-config", "startup-config", "configuration", "config", "tech-support",
   "derived-config", "archive", "full-configuration", "current-configuration",
   "saved-configuration", "session-config", "checkpoint", "candidate", "file", "diff"}

SystemConfigKeywords == {"rollback", "configuration", "admin", "interface", "ha"}

MatchesAny(w, keywords) == \E k \in keywords : HasPrefix(k, w) \/ HasPrefix(w, k)

IsConfigRead(text) ==
  /\ text[1] \in {"show", "display", "get"}
  /\ \/ Len(text) = 1
     \/ MatchesAny(text[2], ConfigKeywords)
     \/ /\ Len(text) > 2
        /\ IsAbbrevOf(text[2], "system") /\ MatchesAny(text[3], SystemConfigKeywords)

MaxMonitorCount == 1000

BoundedCount(w) == AllDigits(w) /\ Len(w) <= 4 /\ Atoi(w) \in 1..MaxMonitorCount

MonitorCountOK(text) ==
  /\ "count" \in SE!ToSet(text)
  /\ \A i \in DOMAIN text : text[i] = "count" => i < Len(text) /\ BoundedCount(text[i + 1])

IsMonitorTraffic(text) == Len(text) > 1 /\ text[1] = "monitor" /\ text[2] = "traffic"

AllowedPrefix(text) ==
  \/ text[1] \in {"show", "get", "display", "ping", "traceroute", "tracepath"}
  \/ IsMonitorTraffic(text)

ClassifyCommand(text) ==
  IF \/ TooLong(text) \/ HasBadBytes(text) \/ text = <<>>
     \/ HasShellMeta(text) \/ HasLeadingDash(text) \/ Blocked(text)
  THEN "EXEC_ARBITRARY"
  ELSE IF IsConfigRead(text) THEN "READ_CONFIG"
  ELSE IF AllowedPrefix(text) /\ (IsMonitorTraffic(text) => MonitorCountOK(text))
  THEN "READ_OPERATIONAL"
  ELSE "EXEC_ARBITRARY"

-----------------------------------------------------------------------------
(* Config payloads *)

\* splitLines.
Lines(text) == Split(text, {NL})

\* cliEscapeWords, in the groups of its comments.
ModeWords == {"end", "exit", "quit", "abort", "configure", "commit", "rollback"}

ShellWords ==
  {"do", "run", "exec", "execute", "enable", "disable", "bash", "shell", "start", "tclsh",
   "python", "python3", "guestshell", "op"}

StateWords ==
  {"reload", "reboot", "halt", "reset", "restart", "zeroize", "zerotouch", "copy", "write",
   "delete", "erase", "format", "rename", "mkdir", "rmdir", "clear", "request", "load", "save",
   "install", "diagnose", "debug", "undebug", "test", "tcpdump"}

ReadWords == {"show", "more"}

HostWords == {"ssh", "telnet", "connect"}

\* Mutant: NX-OS "cli alias name" is forgotten.
AliasWordsOfIos == {"alias"}

AliasWords == {"alias", "cli"}

ScheduleWords ==
  {"event", "event-handler", "schedule", "scheduler", "kron", "daemon", "command"}

OtherWords ==
  {"ping", "traceroute", "clock", "send", "watch", "logout", "terminal", "agent", "return",
   "system-view", "admin"}

CliEscapeWords ==
  ModeWords \cup ShellWords \cup StateWords \cup ReadWords \cup HostWords \cup AliasWords
  \cup ScheduleWords \cup OtherWords

KeptChars == LowerAlnum \cup {"-"}

NameChars == KeptChars \cup {"_"}

\* The letters, digits, "-" and "_" a line starts with.
LeadingWord(w) ==
  LET word == {i \in 1..Len(w) : \A j \in 1..i : Chars(w)[j] \in NameChars}
  IN SubSeq(w, 1, Cardinality(word))

TrimWord(w) ==
  LET keep == {i \in 1..Len(w) : Chars(w)[i] \in KeptChars}
  IN IF keep = {} THEN "" ELSE SubSeq(w, Min(keep), Max(keep))

IsAutocommand(w) == Len(TrimWord(w)) >= 5 /\ HasPrefix("autocommand", TrimWord(w))

HasSeparator(line) == \E w \in SE!ToSet(line) : ";" \in SE!ToSet(Chars(w))

CheckCLIConfigLine(line) ==
  /\ ~TooLong(line) /\ ~HasBadBytes(line) /\ ~HasSeparator(line)
  /\ \/ line = <<>>
     \/ HasPrefix(line[1], "!")
     \/ /\ \A w \in SE!ToSet(line) : ~IsAutocommand(w)
        /\ Chars(line[1])[1] \in LowerAlnum
        /\ ~AbbreviatesAny(LeadingWord(line[1]), CliEscapeWords)

JunosSetVerbs ==
  {"set", "delete", "activate", "deactivate", "annotate", "insert", "rename", "copy",
   "protect", "unprotect", "edit", "top", "up"}

JunosExecConfigWords == {"event-options", "scripts", "extensions", "execute-commands"}

\* "top" takes nothing, "up" a count: what follows would run at that level.
JunosNavigation(line) ==
  /\ line[1] = "top" => Len(line) = 1
  /\ line[1] = "up" => Len(line) = 1 \/ (Len(line) = 2 /\ AllDigits(line[2]))

CheckJunosSetLine(line) ==
  /\ ~TooLong(line) /\ ~HasBadBytes(line)
  /\ \/ line = <<>>
     \/ HasPrefix(line[1], "#")
     \/ /\ line[1] \in JunosSetVerbs
        /\ JunosNavigation(line)
        /\ \A w \in SE!ToSet(Tail(line)) : ~AbbreviatesAny(TrimWord(w), JunosExecConfigWords)

InWord(w, k) == \E i \in 0..(Len(w) - Len(k)) : SubSeq(w, i + 1, i + Len(k)) = k

CheckJunosDataLine(line, format) ==
  /\ ~HasBadBytes(line)
  /\ \A w \in SE!ToSet(line) :
       /\ \A x \in JunosExecConfigWords : ~InWord(w, x)
       /\ format = "xml" => ~InWord(w, "<!")

CheckConfigText(text, format) ==
  \A line \in SE!ToSet(Lines(text)) :
    CASE format = "cli" -> CheckCLIConfigLine(line)
      [] format = "set" -> CheckJunosSetLine(line)
      [] OTHER          -> CheckJunosDataLine(line, format)
=============================================================================
