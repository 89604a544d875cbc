------------------------------- MODULE Debugger -------------------------------
(***************************************************************************)
(* RawDoFmt with RawPutChar as its putc_proc, and RawMayGetChar            *)
(* (src/exec.yml, src/src/exec/debugger.cpp): one processor that formats,  *)
(* waits for the transmit buffer and polls the receive buffer, beside a    *)
(* serial port that takes no notice of it.                                 *)
(***************************************************************************)
EXTENDS FormatMeaning

CONSTANTS
    Scripts,        \* the sequences of formats that are printed one after the other
    MaxReceived     \* how many characters arrive

ASSUME DebuggerAssumption ==
    /\ MaxReceived \in Nat
    /\ \A s \in Scripts : \A i \in DOMAIN s : ArgumentsOf(s[i]) \in Seq(0 .. (2^16 - 1))

\* What a format should put on the line: a carriage return comes before every
\* newline.
Cooked(s) ==
    FlattenSeq([i \in DOMAIN s |-> IF s[i] = "\n" THEN <<"\r", "\n">> ELSE << s[i] >>])

Expected == [f \in UNION {Range(s) : s \in Scripts} |-> Cooked(MeaningOf(f))]

\* The variables of a directive are initialised again for every one.
NoDirective ==
    [flags |-> {}, zero_fill |-> FALSE, width |-> 0, limit |-> -1, long |-> FALSE,
     type |-> NUL, next |-> 1]

VARIABLES
    script,     \* the formats still to be printed
    call,       \* what the processor is in: no call, RawDoFmt's loop, a directive
                \* it has read, or RawMayGetChar
    pattern, at,    \* format's pattern, and where in it the loop is
    data, arg,      \* its arguments, and the next one
    directive,      \* the directive that is being rendered
    out, cr,    \* what is to be put before format goes on, and whether the
                \* carriage return before the newline that is next has been
    txBuffer, shifter,  \* the characters the port holds, at most one in each
    line,       \* what it has sent
    rxBuffer, rbf,  \* the character it has received, and whether it is new
    taken,      \* the character RawMayGetChar has read and not yet acknowledged
    got,        \* history: what RawMayGetChar has answered
    received, overruns, \* history: how many came, how many of them too early
    printed     \* history: what the calls of RawDoFmt so far have to print

formatVars   == <<pattern, at, data, arg, directive, out, cr>>
transmitVars == <<txBuffer, shifter, line>>
receiveVars  == <<rxBuffer, rbf, received, overruns>>
getVars      == <<receiveVars, taken, got>>
callerVars   == <<script, printed>>
debuggerVars == <<call, formatVars, transmitVars, getVars, callerVars>>

-----------------------------------------------------------------------------
(* The processor.                                                          *)

RawDoFmt ==
    /\ call = "none" /\ script # << >>
    /\ call' = "format"
    /\ pattern' = PatternOf(Head(script)) /\ at' = 1
    /\ data' = ArgumentsOf(Head(script)) /\ arg' = 1
    /\ script' = Tail(script)
    /\ printed' = printed \o Expected[Head(script)]
    /\ UNCHANGED <<directive, out, cr, transmitVars, getVars>>

\* The loop goes on once Raw::output has put all it was given.
AtRound == call = "format" /\ out = << >>

\* Everything up to the next % is handed to output at once.
Text ==
    /\ AtRound /\ at <= Len(pattern) /\ pattern[at] # "%"
    /\ out' = SubSeq(pattern, at, TextEnd(pattern, at) - 1)
    /\ at' = TextEnd(pattern, at)
    /\ UNCHANGED <<call, pattern, data, arg, directive, cr, transmitVars, getVars, callerVars>>

\* Mutant of ReadDirective: format does not step back from the NUL that it
\* took for a type.
ReadDirectivePast ==
    /\ AtRound /\ at <= Len(pattern) /\ pattern[at] = "%"
    /\ \E d \in {Directive(pattern, at)} :
         directive' = d /\ at' = d.next + IF d.type = NUL THEN 1 ELSE 0
    /\ call' = "render"
    /\ UNCHANGED <<pattern, data, arg, out, cr, transmitVars, getVars, callerVars>>

\* A directive is read up to its type ...
ReadDirective ==
    /\ AtRound /\ at <= Len(pattern) /\ pattern[at] = "%"
    /\ \E d \in {Directive(pattern, at)} : directive' = d /\ at' = d.next
    /\ call' = "render"
    /\ UNCHANGED <<pattern, data, arg, out, cr, transmitVars, getVars, callerVars>>

\* Mutant of Render: every argument is taken for a word.
RenderOneWord ==
    /\ call = "render"
    /\ out' = Field(directive, Argument(directive, data, arg))
    /\ arg' = arg + IF WordsTaken(directive) = 0 THEN 0 ELSE 1
    /\ call' = "format"
    /\ directive' = NoDirective
    /\ UNCHANGED <<pattern, at, data, cr, transmitVars, getVars, callerVars>>

\* ... and its argument taken, rendered and handed to output.
Render ==
    /\ call = "render"
    /\ out' = Field(directive, Argument(directive, data, arg))
    /\ arg' = arg + WordsTaken(directive)
    /\ call' = "format"
    /\ directive' = NoDirective
    /\ UNCHANGED <<pattern, at, data, cr, transmitVars, getVars, callerVars>>

\* Mutant of PutChar: the transmit buffer is not waited for.
PutCharAtOnce ==
    /\ call = "format" /\ out # << >>
    /\ \/ /\ Head(out) = "\n" /\ ~cr
          /\ txBuffer' = <<"\r">> /\ cr' = TRUE /\ UNCHANGED out
       \/ /\ Head(out) # "\n" \/ cr
          /\ txBuffer' = << Head(out) >> /\ cr' = FALSE /\ out' = Tail(out)
    /\ UNCHANGED <<call, pattern, at, data, arg, directive, shifter, line, getVars, callerVars>>

\* putc, once TBE is set; for a newline it calls itself with a carriage
\* return first.
PutChar ==
    /\ call = "format" /\ out # << >> /\ txBuffer = << >>
    /\ \/ /\ Head(out) = "\n" /\ ~cr
          /\ txBuffer' = <<"\r">> /\ cr' = TRUE /\ UNCHANGED out
       \/ /\ Head(out) # "\n" \/ cr
          /\ txBuffer' = << Head(out) >> /\ cr' = FALSE /\ out' = Tail(out)
    /\ UNCHANGED <<call, pattern, at, data, arg, directive, shifter, line, getVars, callerVars>>

FormatReturns ==
    /\ AtRound /\ at > Len(pattern)
    /\ call' = "none"
    /\ UNCHANGED <<formatVars, transmitVars, getVars, callerVars>>

\* try_getc reads SERDATR; with nothing there it returns -1 at once.
RawMayGetChar ==
    /\ call = "none"
    /\ \/ ~rbf /\ UNCHANGED <<call, taken>>
       \/ rbf /\ call' = "getchar" /\ taken' = rxBuffer
    /\ UNCHANGED <<formatVars, transmitVars, receiveVars, got, callerVars>>

\* Mutant of Acknowledge: the receive interrupt is not cleared.
AcknowledgeNot ==
    /\ call = "getchar"
    /\ got' = Append(got, taken)
    /\ call' = "none"
    /\ UNCHANGED <<formatVars, transmitVars, receiveVars, taken, callerVars>>

\* ... and otherwise clears the receive interrupt and returns.
Acknowledge ==
    /\ call = "getchar"
    /\ rbf' = FALSE
    /\ got' = Append(got, taken)
    /\ call' = "none"
    /\ UNCHANGED <<formatVars, transmitVars, rxBuffer, received, overruns, taken, callerVars>>

Processor ==
    \/ RawDoFmt \/ Text \/ ReadDirective \/ Render \/ PutChar \/ FormatReturns
    \/ RawMayGetChar \/ Acknowledge

-----------------------------------------------------------------------------
(* The serial port (external).                                             *)

Load ==
    /\ txBuffer # << >> /\ shifter = << >>
    /\ shifter' = txBuffer /\ txBuffer' = << >>
    /\ UNCHANGED <<call, formatVars, line, getVars, callerVars>>

Send ==
    /\ shifter # << >>
    /\ line' = line \o shifter /\ shifter' = << >>
    /\ UNCHANGED <<call, formatVars, txBuffer, getVars, callerVars>>

\* A character, known by its number, takes the place of the one before.
Receive ==
    /\ received < MaxReceived
    /\ received' = received + 1
    /\ rxBuffer' = received + 1
    /\ rbf' = TRUE
    /\ overruns' = overruns + IF rbf THEN 1 ELSE 0
    /\ UNCHANGED <<call, formatVars, transmitVars, taken, got, callerVars>>

Port == Load \/ Send \/ Receive

-----------------------------------------------------------------------------
Init ==
    /\ script \in Scripts
    /\ call = "none"
    /\ pattern = << >> /\ at = 1 /\ data = << >> /\ arg = 1
    /\ directive = NoDirective /\ out = << >> /\ cr = FALSE
    /\ txBuffer = << >> /\ shifter = << >> /\ line = << >>
    /\ rxBuffer = 0 /\ rbf = FALSE /\ received = 0 /\ overruns = 0
    /\ taken = 0 /\ got = << >> /\ printed = << >>

Next == Processor \/ Port

\* The code that prints runs on, and the port sends what it holds.
Spec ==
    /\ Init /\ [][Next]_debuggerVars
    /\ WF_debuggerVars(Text \/ ReadDirective \/ Render \/ PutChar \/ FormatReturns)
    /\ WF_debuggerVars(Load \/ Send)

-----------------------------------------------------------------------------
\* What is printed is made of directives that show, each by itself, what they
\* mean.
ScriptsReadable ==
    \A s \in Scripts : IsSequence(s) /\ \A i \in DOMAIN s : Readable(s[i])

\* What is printed are C strings: no pattern holds the NUL that ends it.
PatternsEnd ==
    \A s \in Scripts :
        /\ IsSequence(s)
        /\ \A i \in DOMAIN s : /\ IsSequence(PatternOf(s[i]))
                               /\ NUL \notin Range(PatternOf(s[i]))

\* Whatever it parses, format stays in its pattern (it knows no bound but the
\* NUL that it may take for a type), and the port holds no more than a
\* character in each of its registers.
TypeOK ==
    /\ call \in {"none", "format", "render", "getchar"}
    /\ at \in 1 .. (Len(pattern) + 1)
    /\ Len(txBuffer) <= 1 /\ Len(shifter) <= 1
    /\ received \in 0 .. MaxReceived /\ got \in Seq(1 .. MaxReceived)

\* However the processor and the port take turns, what the port has sent
\* and holds is the beginning of what the formats mean;
\* when RawDoFmt returns it is all of it, and the pointer returned is behind
\* the last argument.
LineFollowsFormat ==
    /\ IsPrefix(line \o shifter \o txBuffer, printed)
    /\ call = "none" => /\ line \o shifter \o txBuffer = printed
                        /\ arg = Len(data) + 1

\* What is being printed arrives: putc's wait ends each time.
AllSent == call = "format" ~> line = printed

\* No character is answered twice or out of order, and none is lost but to
\* another that came before it was acknowledged.
ReceivedAccounted ==
    /\ \A i, j \in DOMAIN got : i < j => got[i] < got[j]
    /\ received = Len(got) + overruns + IF rbf THEN 1 ELSE 0
=============================================================================
