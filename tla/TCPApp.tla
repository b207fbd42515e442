------------------------------- MODULE TCPApp -------------------------------
(***************************************************************************)
(* The programs tcp_ipv4, tcp_udp and tcp_native (apps/*.cc): the command  *)
(* line is read option by option, the socket is opened, streams are copied *)
(* until both are done, and the program waits for the connection to close. *)
(* An argument is one of a few words; argv[0] is left out, so that argv[i] *)
(* is the i of the code and Len(argv) is argc - 1.                         *)
(***************************************************************************)
EXTENDS StreamCopy

CONSTANTS Programs,
          Words,      \* bound: the arguments considered
          MaxArgs     \* bound: the length of the command line

ASSUME AppAssumption == /\ Programs \subseteq {"tcp_ipv4", "tcp_udp", "tcp_native"}
                        /\ MaxArgs \in Nat

VARIABLES main,   \* which program, where it is, and the result of get_config()
          argv,
          curr    \* the argument looked at

appVars == <<main, argv, curr, copyVars>>

\* strncmp(opt, arg, 3) compares the whole of a two-character option, but only the
\* beginning of -Lu and -Ld.
Matches(arg, opt) == arg = opt \/ (opt = "-Lu" /\ arg = "-Luxe")

ValueOptions ==
    [tcp_ipv4 |-> {"-a", "-s", "-w", "-t", "-d", "-Lu", "-Ld"},
     tcp_udp  |-> {"-w", "-t", "-Lu", "-Ld"}]

TakesValue(program, arg) == \E opt \in ValueOptions[program] : Matches(arg, opt)

NoConfig == [listen |-> FALSE, values |-> {}, host |-> 0, port |-> 0]

AppInit == /\ CopyInit(FALSE)
           /\ argv \in UNION {[1 .. n -> Words] : n \in 0 .. MaxArgs}
           /\ curr = 1
           /\ \E p \in Programs : main = [program |-> p, pc |-> "start", config |-> NoConfig]

At(pc) == main.pc = pc
Goto(pc) == main' = [main EXCEPT !.pc = pc]
ParseStep == UNCHANGED <<argv, copyVars>>

\* main() tests the number of arguments; tcp_native looks at no more than its first.
Start ==
    /\ At("start")
    /\ LET native == main.program = "tcp_native"
           listen == native /\ Len(argv) > 0 /\ argv[1] = "-l"
           least == IF listen THEN 3 ELSE 2
       IN  main' = [main EXCEPT !.pc = IF Len(argv) < least THEN "usage"
                                        ELSE IF native THEN "open" ELSE "options",
                                !.config = IF native
                                           THEN [listen |-> listen, values |-> {},
                                                 host |-> least - 1, port |-> least]
                                           ELSE NoConfig]
    /\ UNCHANGED curr /\ ParseStep

MoreOptions == At("options") /\ Len(argv) - curr >= 2

Listen == /\ MoreOptions /\ argv[curr] = "-l"
          /\ main' = [main EXCEPT !.config.listen = TRUE]
          /\ curr' = curr + 1
          /\ ParseStep

\* Mutant: the value of an option may be the host.
CheckArgc_OffByOne == curr + 2 > Len(argv)

\* check_argc(): the option, its value, the host and the port.
CheckArgc == curr + 3 > Len(argv)

Option == /\ MoreOptions /\ TakesValue(main.program, argv[curr])
          /\ IF CheckArgc THEN Goto("usage") /\ UNCHANGED curr
             ELSE /\ main' = [main EXCEPT !.config.values = @ \cup {curr + 1}]
                  /\ curr' = curr + 2
          /\ ParseStep

Help == /\ MoreOptions /\ argv[curr] = "-h"
        /\ Goto("help")
        /\ UNCHANGED curr /\ ParseStep

Unrecognized == /\ MoreOptions
                /\ argv[curr] \notin {"-l", "-h"} /\ ~TakesValue(main.program, argv[curr])
                /\ Goto("usage")
                /\ UNCHANGED curr /\ ParseStep

\* tcp_ipv4 counts from curr and refuses to listen on port zero; tcp_udp counts from
\* the end.  When listening both bind "0" (here 0, no argument) and skip the host.
Positional ==
    LET ipv4 == main.program = "tcp_ipv4"
        last == Len(argv)
        port == IF ipv4 THEN curr + 1 ELSE last
    IN  /\ At("options") /\ ~MoreOptions
        /\ main' = [main EXCEPT !.pc = IF ipv4 /\ main.config.listen /\ argv[port] = "0"
                                       THEN "usage" ELSE "open",
                                !.config.host = IF main.config.listen THEN 0 ELSE port - 1,
                                !.config.port = port]
        /\ UNCHANGED curr /\ ParseStep

\* bind(), connect(), listen_and_accept() and what comes before them, which may
\* throw.  The command line is not read again; what standard input is shows now.
OpenSocket == /\ At("open")
              /\ argv' = <<>> /\ curr' = 0
              /\ \E pc \in {"copy", "failure"} :
                    main' = [main EXCEPT !.pc = pc, !.config = NoConfig]
              /\ \E pipe \in BOOLEAN : env' = [env EXCEPT !.pipe = pipe]
              /\ UNCHANGED <<copy, fds, copyloop>>

Copying == At("copy") /\ UNCHANGED <<main, argv, curr>>

CopyStep == Copying /\ CopyLoop
CopySignal == Copying /\ CopyInterrupted
Inputs == Copying /\ CopyInputs
Outputs == Copying /\ CopyOutputs
Loses == Copying /\ IF main.program = "tcp_native" THEN SocketError ELSE SocketShutDown

\* tcp_native has no connection of its own to wait for.
AfterCopy == /\ At("copy")
             /\ \/ copyloop.pc = "returned"
                   /\ Goto(IF main.program = "tcp_native" THEN "success" ELSE "wait_until_closed")
                \/ copyloop.pc = "thrown" /\ Goto("failure")
             /\ UNCHANGED <<argv, curr, copyVars>>

WaitUntilClosed == /\ At("wait_until_closed") /\ Goto("success")
                   /\ UNCHANGED <<argv, curr, copyVars>>

MainStep == \/ Start \/ Listen \/ Option \/ Help \/ Unrecognized \/ Positional
            \/ OpenSocket \/ CopyStep \/ AfterCopy \/ WaitUntilClosed

AppNext == MainStep \/ CopySignal \/ Inputs \/ Outputs \/ Loses

\* The program is scheduled, and what it writes is read.
AppSpec == /\ AppInit /\ [][AppNext]_appVars
           /\ WF_appVars(MainStep) /\ WF_appVars(Outputs)
-----------------------------------------------------------------------------
\* The reading of a command line without reference to the loop: each argument before
\* the last two either starts an item or is the value of the one before it.
Reading(starts) ==
    LET last == Len(argv)
        valued == {i \in starts : TakesValue(main.program, argv[i])}
    IN  /\ \A i \in 1 .. last - 2 : (i \in starts) # (i - 1 \in valued)
        /\ \A i \in starts : argv[i] = "-l" \/ i \in valued
        /\ \A i \in valued : i + 1 <= last - 2

\* get_config() takes a command line exactly when it can be read that way: the host
\* and the port are the last two arguments, no option takes one of them for its value,
\* each value is that of the option before it, and with -l anywhere among the options
\* the host is read over, whatever it says.
CommandLineAsRead ==
    LET last == Len(argv)
        readings == {s \in SUBSET (1 .. last - 2) : Reading(s)}
        c == main.config
    IN  main.program # "tcp_native" =>
        /\ At("open") =>
             /\ c.host = (IF c.listen THEN 0 ELSE last - 1) /\ c.port = last
             /\ \E s \in readings :
                  /\ c.listen = (\E i \in s : argv[i] = "-l")
                  /\ c.values = {i + 1 : i \in {j \in s : TakesValue(main.program, argv[j])}}
        /\ At("usage") => last < 2 \/ readings = {} \/ (c.listen /\ argv[last] = "0")

\* The loop never busy-waits, never reads where it would block, never writes to the
\* closed output.  It throws only when the connection is lost: at poll() (tcp_native), or
\* at the write of bytes that the socket pair no longer takes.
ThrowsOnlyIfLost ==
    copyloop.pc = "thrown" =>
        /\ env.lost
        /\ main.program = "tcp_native" \/ (fds.socketOut.shut /\ copy.outbound.buff # <<>>)

\* wait_until_closed() is called, and the program ends well, only when all four
\* directions are at their end and the end of the socket was read, as
\* tcp_sponge_socket.hh advises; unless a signal interrupts the copy.  When the
\* connection is lost standard input may go on.
WaitsAtTheEnd ==
    main.pc \in {"wait_until_closed", "success"} /\ env.signals = 0 =>
        /\ fds.socketIn.eof /\ \A f \in {"socketOut", "socketIn", "stdout"} : fds[f].shut
        /\ fds.stdin.shut \/ env.lost

\* Once both inputs have ended the program ends, whatever the timing of the others, and
\* it fails only if the connection was lost.
EndsWhenInputsEnd ==
    fds.stdin.shut /\ fds.socketIn.shut ~> At("success") \/ (At("failure") /\ env.lost)
=============================================================================
