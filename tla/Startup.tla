------------------------------- MODULE Startup -------------------------------
(***************************************************************************)
(* From the command line to the running service: the options (options.c),  *)
(* the configuration file with its parser (ini.c) and handler (config.c),  *)
(* and the order in which main (ds2d.c) goes through them.                 *)
(*                                                                         *)
(* A line of the file is what one fgets() returns.  What its text says is  *)
(* represented by its number, for the text and, where it starts with       *)
(* digits, for what atoi() makes of it.  Names are not empty.              *)
(***************************************************************************)
EXTENDS Naturals, Sequences, FiniteSets, FiniteSetsExt

CONSTANTS
  DebugFlag,  \* the options -c, -g, -i, -r, -t, -w as names of what they debug
  MaxLine     \* bound: lines of the configuration file

VARIABLES
  pc,             \* how far main has come
  options,        \* the flags that are TRUE, "debug" among them
  daemon,         \* whether DAEMONIZE_Init was called
  file,           \* the lines read so far; lineno is their number
  section, prev_name, error,  \* locals of ini_parse_file
  configuration

command == <<options, daemon>>
parser == <<file, section, prev_name, error, configuration>>
vars == <<pc, command, parser>>

Kind(k, indent, words) == [kind : {k}, indent : indent, word : words]
Line ==
  Kind("nothing", {FALSE}, {""})  \* blank or a comment, indented or not
    \cup Kind("header", BOOLEAN, {"remote", "wheels"})
    \cup Kind("pair", BOOLEAN, {"port", "device", "speed"})
    \cup Kind("open header", BOOLEAN, {""}) \cup Kind("number", BOOLEAN, {""})

\* The entries that CONFIG_Handler knows.
Known == {<<"remote", "port">>, <<"wheels", "device">>, <<"wheels", "speed">>}

Init ==
  /\ pc = "options"
  /\ options = {} /\ daemon = FALSE
  /\ file = <<>>
  /\ section = "" /\ prev_name = "" /\ error = 0
  /\ configuration = [n \in {"port", "device", "speed"} |-> 0]

-----------------------------------------------------------------------------
(* OPTIONS_Init: do { switch (getopt_long(...)) } while (... != -1).       *)

\* The mutated form of Flag: the flag does not switch on debugging as a whole.
FlagMutant ==
  /\ pc = "options"
  /\ \E f \in DebugFlag \cup {"debug"} : options' = options \cup {f}
  /\ UNCHANGED <<pc, daemon, parser>>

Flag ==
  /\ pc = "options"
  /\ \E f \in DebugFlag \cup {"debug"} : options' = options \cup {f, "debug"}
  /\ UNCHANGED <<pc, daemon, parser>>

\* -V and -h end with 0, an unknown option with 1; --port is in the table of long
\* options but not in the switch, whose default is abort().
LastOption ==
  /\ pc = "options"
  /\ pc' \in {"exit 0", "exit 1", "aborted", "daemonize"}
  /\ UNCHANGED <<command, parser>>

-----------------------------------------------------------------------------
(* main *)

\* Into the background unless a debug flag is set; Daemonize has the details.
DAEMONIZE_Init ==
  /\ pc = "daemonize"
  /\ IF "debug" \in options
       THEN pc' = "open" /\ UNCHANGED daemon
       ELSE pc' \in {"open", "exit 1"} /\ daemon' = TRUE
  /\ UNCHANGED <<options, parser>>

\* ini_parse: fopen() of "../config.ini".
OpenFile ==
  /\ pc = "open"
  /\ pc' \in {"scan", "exit 1"}
  /\ UNCHANGED <<command, parser>>

\* At the end of the file any result but -1, an error line too, is taken for
\* success by CONFIG_Init.
EndOfFile ==
  /\ pc = "scan"
  /\ pc' = "remote"
  /\ UNCHANGED <<command, parser>>

REMOTE_Init ==
  /\ pc = "remote"
  /\ pc' \in {"running", "exit 1"}
  /\ UNCHANGED <<command, parser>>

-----------------------------------------------------------------------------
(* ini_parse_file: one line.                                               *)

lineno == Len(file) + 1

\* if (... && !error) error = lineno;
Wrong == error' = (IF error = 0 THEN lineno ELSE error) /\ UNCHANGED configuration
Fine == UNCHANGED <<error, configuration>>

\* The mutated form of CONFIG_Handler: the section is not looked at.
CONFIG_HandlerMutant(name, number) ==
  /\ configuration' = [configuration EXCEPT ![name] = IF name = "device" \/ number THEN lineno ELSE 0]
  /\ UNCHANGED error

\* atoi() or strdup() of the value into the field; 0, an error, if there is none.
CONFIG_Handler(name, number) ==
  IF <<section, name>> \in Known
    THEN /\ configuration' = [configuration EXCEPT
              ![name] = IF name = "device" \/ number THEN lineno ELSE 0]
         /\ UNCHANGED error
    ELSE Wrong

\* A line with leading white space, while there is a name, continues its value:
\* the handler gets the name again, with the whole line as the value.
Continuation(line) ==
  /\ line.indent /\ prev_name # ""
  /\ CONFIG_Handler(prev_name, line.kind = "number")
  /\ UNCHANGED <<section, prev_name>>

Plain(line) ==
  /\ ~(line.indent /\ prev_name # "")
  /\ CASE line.kind = "nothing" -> Fine /\ UNCHANGED <<section, prev_name>>
       [] line.kind = "header"  -> section' = line.word /\ prev_name' = "" /\ Fine
       [] line.kind = "pair"    -> /\ prev_name' = line.word /\ UNCHANGED section
                                   /\ CONFIG_Handler(line.word, TRUE)
       [] OTHER                 -> Wrong /\ UNCHANGED <<section, prev_name>>

\* The mutated form of ReadLine: a section line leaves the name in force.
ReadLineMutant ==
  /\ pc = "scan" /\ Len(file) < MaxLine
  /\ \E line \in Line :
       /\ file' = Append(file, line)
       /\ IF line.kind = "header" /\ ~line.indent
            THEN section' = line.word /\ UNCHANGED <<prev_name, error, configuration>>
            ELSE Continuation(line) \/ Plain(line)
  /\ UNCHANGED <<pc, command>>

ReadLine ==
  /\ pc = "scan" /\ Len(file) < MaxLine
  /\ \E line \in Line :
       /\ file' = Append(file, line)
       /\ Continuation(line) \/ Plain(line)
  /\ UNCHANGED <<pc, command>>

Next ==
  \/ Flag \/ LastOption
  \/ DAEMONIZE_Init \/ OpenFile \/ ReadLine \/ EndOfFile \/ REMOTE_Init

Spec == Init /\ [][Next]_vars

-----------------------------------------------------------------------------
(* What a file says, without reading it line by line.                      *)

LastOf(S) == IF S = {} THEN 0 ELSE Max(S)

\* The last section line at the margin before line k, and whether there is a pair
\* after it: exactly then an indented line k is swallowed as a continuation.
Anchor(k) == LastOf({j \in 1..k - 1 : file[j].kind = "header" /\ ~file[j].indent})
Swallowed(k) == file[k].indent /\ \E j \in Anchor(k) + 1..k - 1 : file[j].kind = "pair"

Effective(kind) == {j \in 1..Len(file) : file[j].kind = kind /\ ~Swallowed(j)}

\* The section that line k belongs to, and the name it gives a value to ("" if none).
SectionAt(k) ==
  LET j == LastOf({h \in Effective("header") : h < k}) IN IF j = 0 THEN "" ELSE file[j].word
NameAt(k) ==
  IF Swallowed(k) THEN file[Max({j \in Effective("pair") : j < k})].word
  ELSE IF file[k].kind = "pair" THEN file[k].word ELSE ""

Assigns(k) == NameAt(k) # ""
Bad(k) ==
  IF Assigns(k) THEN <<SectionAt(k), NameAt(k)>> \notin Known
                ELSE file[k].kind \in {"open header", "number"}

\* Each field has the value of the last line that gives one to it in its section,
\* errors before and after that line notwithstanding, and its initial value if
\* there is none.  A continuation counts: it replaces the value.
ParsedAsWritten ==
  \A e \in Known :
    LET k == LastOf({j \in 1..Len(file) : <<SectionAt(j), NameAt(j)>> = e})
    IN configuration[e[2]] =
         IF k = 0 \/ (Swallowed(k) /\ e[2] # "device" /\ file[k].kind # "number") THEN 0 ELSE k

\* The result of ini_parse is the number of the first bad line, 0 if there is
\* none; parsing goes on behind it.
FirstError == error = IF \E k \in 1..Len(file) : Bad(k)
                        THEN Min({k \in 1..Len(file) : Bad(k)}) ELSE 0

\* Any debug flag implies debug (what Remote assumes of its flags), and the
\* service is in the background exactly if it runs without any.
ForegroundIfDebugged ==
  /\ options # {} => "debug" \in options
  /\ pc = "running" => (daemon <=> options = {})
=============================================================================
