-------------------------- MODULE SocketUtils_proofs --------------------------
(***************************************************************************)
(* Proofs about the two halves of SocketUtils, which share no state:       *)
(*                                                                         *)
(* Interfaces, for any interfaces and any number of places in the array of *)
(* getNetworkInterfaces().                                                 *)
(*                                                                         *)
(* Resolver, for any number of threads and hosts, signed and unsigned      *)
(* chars and addresses of any length: a call that no other thread disturbs *)
(* is about the host it was made for.                                      *)
(***************************************************************************)
EXTENDS Interfaces, Resolver, SequenceTheorems, TLAPS

-----------------------------------------------------------------------------
(* Interfaces.  The parts of the invariant: the kernel's interfaces, the   *)
(* sockets, the run.                                                       *)

TableOK == table \in [Names -> {Absent, NoAddress} \cup Configuration]

SocketsOK == sockets \in Nat /\ ExceptionsAreHandled

RunOK == run \in RunType /\ PrintCalls /\ CalmOK

LEMMA Parts == IInv <=> TableOK /\ SocketsOK /\ RunOK
BY DEF IInv, TypeOK, TableOK, SocketsOK, RunOK

-----------------------------------------------------------------------------
(* What the functions follow one another with.                             *)

(* What print() asks for of an interface.                                  *)
Asked == {"getMTU", "getInterfaceAddress", "getNetmask", "getBroadcastAddress",
          "getHardwareAddress"}

LEMMA FollowingIs ==
  /\ DOMAIN Following = Asked \ {"getHardwareAddress"}
  /\ \A fn \in DOMAIN Following : Following[fn] \in Asked
BY DEF Following, Asked

LEMMA SetterOfIs ==
  /\ SetterOf["address"] = "setInterfaceAddress" /\ SetterOf["netmask"] = "setNetmask"
  /\ SetterOf["broadcast"] = "setBroadcastAddress"
  /\ SetterOf["destination"] = "setDestinationAddress" /\ SetterOf["mtu"] = "setMTU"
  /\ DOMAIN SetterOf = Settings \cup {"mtu"}
BY DEF SetterOf, Settings

LEMMA FunctionsAre ==
  /\ Getters = Asked \cup {"getDestinationAddress"}
  /\ Functions = Getters \cup {"setMTU", "setInterfaceAddress", "setNetmask",
                  "setBroadcastAddress", "setDestinationAddress"} \cup {"getNetworkInterfaces"}
<1>1. Getters = Asked \cup {"getDestinationAddress"}
  BY FollowingIs DEF Getters, Asked
<1>2. {SetterOf[s] : s \in DOMAIN SetterOf} =
        {"setMTU", "setInterfaceAddress", "setNetmask",
         "setBroadcastAddress", "setDestinationAddress"}
  BY SetterOfIs DEF Settings
<1> QED BY <1>1, <1>2 DEF Functions

-----------------------------------------------------------------------------
(* How a run goes on.                                                      *)

LEMMA NoRunType == NoRun \in RunType
BY Zenon DEF NoRun, RunType

LEMMA ExitIs ==
  ASSUME NEW code \in {0, -1}
  PROVE  /\ Exit(code) \in RunType /\ Exit(code).pc = "exited" /\ Exit(code).job = "none"
         /\ Exit(code).calm = {} /\ Exit(code).code = code /\ Exit(code).fn = "none"
<1>1. Exit(code) \in RunType
  BY NoRunType, Zenon DEF Exit, RunType
<1> QED BY <1>1 DEF Exit, NoRun

LEMMA TerminateIs ==
  ASSUME NEW fn \in Functions
  PROVE  /\ Terminate(fn) \in RunType /\ Terminate(fn).pc = "terminated"
         /\ Terminate(fn).job = "none" /\ Terminate(fn).calm = {} /\ Terminate(fn).fn = fn
<1>1. Terminate(fn) \in RunType
  BY NoRunType, Zenon DEF Terminate, RunType
<1> QED BY <1>1 DEF Terminate, NoRun

(* A run in which nothing is calm.                                         *)
LEMMA NothingCalm ==
  ASSUME run' \in RunType, run'.job # "print", run'.calm = {}
  PROVE  RunOK'
BY DEF RunOK, PrintCalls, CalmOK

(* print() goes on.                                                        *)
LEMMA ShownIs ==
  ASSUME run \in RunType, PrintCalls, run.job = "print", run.fn # "getNetworkInterfaces"
  PROVE  /\ Shown \in RunType /\ Shown.pc \in {"call", "next"} /\ Shown.job = "print"
         /\ Shown.fn \in Asked /\ Shown.name = run.name /\ run.name \in Names
         /\ Shown.list = run.list /\ Shown.calm = run.calm /\ Shown.blank = run.blank
<1>1. run.fn \in Asked /\ run.name \in Names
  BY FollowingIs DEF PrintCalls, Asked
<1>2. CASE run.fn \in DOMAIN Following
  <2> DEFINE fn == Following[run.fn]
  <2>1. fn \in Asked /\ fn \in Functions
    BY <1>2, FollowingIs, FunctionsAre
  <2>2. Shown = [run EXCEPT !.fn = fn, !.pc = "call"]
    BY <1>2 DEF Shown
  <2> HIDE DEF fn
  <2>3. Shown \in RunType
    BY <2>1, <2>2, Zenon DEF RunType
  <2> QED BY <1>1, <2>1, <2>2, <2>3 DEF RunType
<1>3. CASE run.fn \notin DOMAIN Following
  <2> DEFINE shown == run.shown \cup {run.name}
  <2>1. shown \in SUBSET Names
    BY <1>1 DEF RunType
  <2>2. Shown = [run EXCEPT !.shown = shown, !.pc = "next"]
    BY <1>3 DEF Shown
  <2> HIDE DEF shown
  <2>3. Shown \in RunType
    BY <2>1, <2>2, Zenon DEF RunType
  <2> QED BY <1>1, <2>1, <2>2, <2>3 DEF RunType
<1> QED BY <1>2, <1>3
(* An exception ends the program, or print() shows <fail> and goes on.     *)
LEMMA ThrewIs ==
  ASSUME run \in RunType, PrintCalls
  PROVE  /\ Threw \in RunType
         /\ \/ run.job # "print" /\ Threw = Exit(-1)
            \/ /\ run.job = "print" /\ run.fn = "getNetworkInterfaces"
               /\ Threw = Terminate("getNetworkInterfaces")
            \/ /\ run.job = "print" /\ run.fn # "getNetworkInterfaces" /\ Threw.job = "print"
               /\ Threw.pc \in {"call", "next"} /\ Threw.fn \in Asked
               /\ Threw.name = run.name /\ run.name \in Names
               /\ Threw.list = run.list /\ Threw.calm = run.calm
               /\ Threw.blank = IF run.fn = "getHardwareAddress" /\ run.name \notin Ether
                                  THEN run.blank ELSE run.blank \cup ({run.name} \cap run.calm)
<1>1. CASE run.job # "print"
  BY <1>1, ExitIs DEF Threw
<1>2. CASE run.job = "print" /\ run.fn = "getNetworkInterfaces"
  BY <1>2, TerminateIs, FunctionsAre DEF Threw
<1>3. CASE run.job = "print" /\ run.fn # "getNetworkInterfaces"
  <2> DEFINE blank == IF run.fn = "getHardwareAddress" /\ run.name \notin Ether
                        THEN run.blank ELSE run.blank \cup ({run.name} \cap run.calm)
  <2>1. blank \in SUBSET Names
    BY DEF RunType
  <2>2. /\ Shown \in RunType /\ Shown.pc \in {"call", "next"} /\ Shown.job = "print"
        /\ Shown.fn \in Asked /\ Shown.name = run.name /\ run.name \in Names
        /\ Shown.list = run.list /\ Shown.calm = run.calm /\ Shown.blank = run.blank
    BY <1>3, ShownIs
  <2>3. Threw = [Shown EXCEPT !.blank = blank]
    BY <1>3, <2>2 DEF Threw
  <2> HIDE DEF blank
  <2>4. Threw \in RunType
    BY <2>1, <2>2, <2>3, Zenon DEF RunType
  <2>5. /\ Threw.pc = Shown.pc /\ Threw.job = Shown.job /\ Threw.fn = Shown.fn
        /\ Threw.name = Shown.name /\ Threw.list = Shown.list /\ Threw.calm = Shown.calm
        /\ Threw.blank = blank
    BY <2>2, <2>3 DEF RunType
  <2> QED BY <1>3, <2>2, <2>4, <2>5 DEF blank
<1> QED BY <1>1, <1>2, <1>3

(* What is calm has an address, so nothing print() asks for fails there.   *)
LEMMA CalmDoesNotThrow ==
  ASSUME RunOK, run.job = "print", run.fn # "getNetworkInterfaces",
         \/ run.fn = "getMTU" /\ run.name \notin Present
         \/ run.fn \in Asked \ {"getMTU", "getHardwareAddress"} /\ run.name \notin Addressed
         \/ run.fn = "getHardwareAddress" /\ run.name \notin Present \cap Ether
  PROVE  Threw.blank \cap Threw.calm = {}
<1>1. run.calm \subseteq Addressed /\ run.calm \cap run.blank = {}
  BY DEF RunOK, CalmOK
<1>2. Addressed \subseteq Present
  BY DEF Addressed
<1>3. \/ run.name \notin run.calm
      \/ run.fn = "getHardwareAddress" /\ run.name \notin Ether
  BY <1>1, <1>2
<1>4. /\ Threw.calm = run.calm
      /\ Threw.blank = IF run.fn = "getHardwareAddress" /\ run.name \notin Ether
                         THEN run.blank ELSE run.blank \cup ({run.name} \cap run.calm)
  BY ThrewIs DEF RunOK
<1> QED BY <1>1, <1>3, <1>4

(* A call ends, and its socket is closed.                                  *)
LEMMA EndsStep ==
  ASSUME RunOK, SocketsOK, NEW ok \in BOOLEAN, Ends(ok), run.pc = "ioctl",
         run.fn # "getNetworkInterfaces",
         run.calm \subseteq Addressed',
         ~ok /\ run.job = "print" => Threw.blank \cap Threw.calm = {}
  PROVE  RunOK' /\ SocketsOK'
<1>1. sockets = 1 /\ sockets' = 0
  BY DEF Ends, SocketsOK, ExceptionsAreHandled
<1>2. run' = IF ok THEN Returned ELSE Threw
  BY DEF Ends
<1>3. CASE run.job # "print"
  <2>1. run' = Exit(0) \/ run' = Exit(-1)
    BY <1>2, <1>3 DEF Returned, Threw
  <2>2. /\ run' \in RunType /\ run'.pc = "exited" /\ run'.job = "none" /\ run'.calm = {}
    BY <2>1, ExitIs
  <2>3. RunOK'
    BY <2>2, NothingCalm
  <2> QED BY <1>1, <2>2, <2>3 DEF SocketsOK, ExceptionsAreHandled
<1>4. CASE run.job = "print"
  <2>1. /\ run' \in RunType /\ run'.pc \in {"call", "next"} /\ run'.job = "print"
        /\ run'.fn \in Asked /\ run'.name = run.name /\ run.name \in Names
        /\ run'.list = run.list /\ run'.calm = run.calm
    <3>1. CASE ok
      BY <1>2, <1>4, <3>1, ShownIs DEF Returned, RunOK
    <3>2. CASE ~ok
      BY <1>2, <1>4, <3>2, ThrewIs DEF RunOK
    <3> QED BY <3>1, <3>2
  <2>2. run'.blank \cap run'.calm = {}
    <3>1. CASE ok
      BY <1>2, <1>4, <3>1, ShownIs DEF Returned, RunOK, CalmOK
    <3>2. CASE ~ok
      BY <1>2, <1>4, <3>2
    <3> QED BY <3>1, <3>2
  <2>3. PrintCalls'
    BY <2>1, FollowingIs DEF PrintCalls, Asked
  <2>4. run.calm \subseteq run.list
    BY DEF RunOK, CalmOK, Listing
  <2>5. CalmOK'
    BY <2>1, <2>2, <2>4 DEF CalmOK
  <2> QED BY <1>1, <2>1, <2>3, <2>5 DEF RunOK, SocketsOK, ExceptionsAreHandled
<1> QED BY <1>3, <1>4
-----------------------------------------------------------------------------
(* The steps.                                                              *)

LEMMA InitIInv == Init => IInv
<1> SUFFICES ASSUME Init PROVE TableOK /\ SocketsOK /\ RunOK
  BY Parts
<1>1. TableOK
  <2>1. AllGood \in Configuration
    BY DEF AllGood, Configuration
  <2> QED BY <2>1 DEF Init, TableOK
<1>2. run = NoRun /\ run.pc = "exited" /\ run.job = "none" /\ run.calm = {}
  BY DEF Init, NoRun
<1>3. SocketsOK
  BY <1>2 DEF Init, SocketsOK, ExceptionsAreHandled
<1>4. RunOK
  BY <1>2, NoRunType DEF RunOK, PrintCalls, CalmOK
<1> QED BY <1>1, <1>3, <1>4

LEMMA TableSame ==
  ASSUME TableOK, table' = table
  PROVE  TableOK' /\ Addressed' = Addressed /\ Present' = Present
BY DEF TableOK, Addressed, Present

(* The programs.                                                           *)
LEMMA ProgramStep ==
  ASSUME IInv,
         \/ PrintAll \/ NextInterface
         \/ \E name \in Names \cup {LongName} :
              \/ \E setting \in DOMAIN SetterOf \cup {"?"}, valid \in BOOLEAN :
                   Configure(name, setting, valid)
              \/ \E fn \in Getters : Query(fn, name)
  PROVE  IInv'
<1> SUFFICES TableOK' /\ SocketsOK' /\ RunOK'
  BY Parts, PTL
<1>0. TableOK /\ SocketsOK /\ RunOK
  BY Parts
<1>1. table' = table /\ sockets' = sockets /\ sockets = 0
  BY <1>0 DEF PrintAll, NextInterface, Configure, Query, Over, SocketsOK, ExceptionsAreHandled
<1>2. TableOK' /\ Addressed' = Addressed
  BY <1>0, <1>1, TableSame
<1>3. CASE PrintAll
  <2> DEFINE calm == Addressed
  <2>1. calm \in SUBSET Names
    BY DEF Addressed, Present
  <2>2. run' = [NoRun EXCEPT !.job = "print", !.pc = "call",
                             !.fn = "getNetworkInterfaces", !.calm = calm]
    BY <1>3 DEF PrintAll
  <2> HIDE DEF calm
  <2>3. "getNetworkInterfaces" \in Functions
    BY FunctionsAre
  <2>4. run' \in RunType
    BY <2>1, <2>2, <2>3, NoRunType, Zenon DEF RunType
  <2>5. /\ run'.job = "print" /\ run'.pc = "call" /\ run'.fn = "getNetworkInterfaces"
        /\ run'.calm = Addressed /\ run'.blank = {}
    BY <2>2 DEF NoRun, calm
  <2>6. RunOK'
    BY <1>2, <2>4, <2>5 DEF RunOK, PrintCalls, CalmOK, Listing
  <2> QED BY <1>1, <1>2, <2>5, <2>6 DEF SocketsOK, ExceptionsAreHandled
<1>4. CASE NextInterface
  <2>1. ASSUME NEW n \in run.list,
               run' = [run EXCEPT !.name = n, !.fn = "getMTU", !.pc = "call"]
        PROVE  RunOK' /\ SocketsOK'
    <3>1. run \in RunType /\ n \in Names /\ "getMTU" \in Functions
      BY <1>0, FunctionsAre DEF RunOK, RunType, Asked
    <3>2. run' \in RunType
      BY <2>1, <3>1, Zenon DEF RunType
    <3>3. /\ run'.job = run.job /\ run'.pc = "call" /\ run'.fn = "getMTU" /\ run'.name = n
          /\ run'.list = run.list /\ run'.calm = run.calm /\ run'.blank = run.blank
      BY <2>1, <3>1 DEF RunType
    <3>4. run.calm \subseteq run.list
      BY <1>0, <1>4 DEF RunOK, CalmOK, Listing, NextInterface
    <3>5. PrintCalls'
      BY <3>1, <3>3, FollowingIs DEF PrintCalls, Asked
    <3>6. CalmOK'
      BY <1>0, <1>2, <3>3, <3>4 DEF RunOK, CalmOK
    <3> QED BY <1>1, <3>2, <3>3, <3>5, <3>6 DEF RunOK, SocketsOK, ExceptionsAreHandled
  <2>2. CASE run' = Exit(0)
    <3>1. run' \in RunType /\ run'.pc = "exited" /\ run'.job = "none" /\ run'.calm = {}
      BY <2>2, ExitIs
    <3>2. RunOK'
      BY <3>1, NothingCalm
    <3> QED BY <1>1, <1>2, <3>1, <3>2 DEF SocketsOK, ExceptionsAreHandled
  <2> QED BY <1>2, <1>4, <2>1, <2>2 DEF NextInterface
<1>5. ASSUME NEW name \in Names \cup {LongName}, NEW valid \in BOOLEAN, NEW fn \in Functions,
             NEW job \in {"query", "configure"},
             run' = [NoRun EXCEPT !.job = job, !.pc = "call", !.fn = fn, !.name = name, !.valid = valid]
      PROVE  RunOK' /\ SocketsOK'
  <2>1. run' \in RunType
    BY <1>5, NoRunType, Zenon DEF RunType
  <2>2. run'.job = job /\ run'.pc = "call" /\ run'.calm = {}
    BY <1>5 DEF NoRun
  <2>3. RunOK'
    BY <2>1, <2>2, NothingCalm
  <2> QED BY <1>1, <2>2, <2>3 DEF SocketsOK, ExceptionsAreHandled
<1>6. ASSUME NEW name \in Names \cup {LongName}, NEW setting \in DOMAIN SetterOf \cup {"?"},
             NEW valid \in BOOLEAN, Configure(name, setting, valid)
      PROVE  RunOK' /\ SocketsOK'
  <2>1. CASE run' = Exit(-1)
    BY <1>1, <2>1, ExitIs, NothingCalm DEF SocketsOK, ExceptionsAreHandled
  <2>2. CASE run' = [Terminate("setMTU") EXCEPT !.valid = FALSE]
    <3>1. "setMTU" \in Functions
      BY FunctionsAre
    <3>0. Terminate("setMTU") \in RunType
      BY <3>1, TerminateIs
    <3>2. run' \in RunType
      BY <2>2, <3>0, Zenon DEF RunType
    <3>3. /\ run'.pc = "terminated" /\ run'.job = "none" /\ run'.calm = {}
          /\ run'.fn = "setMTU" /\ ~run'.valid
      BY <2>2, Zenon DEF Terminate, NoRun
    <3>4. RunOK'
      BY <3>2, <3>3, NothingCalm
    <3> QED BY <1>1, <3>3, <3>4 DEF SocketsOK, ExceptionsAreHandled
  <2>3. CASE /\ setting \in DOMAIN SetterOf
             /\ run' = [NoRun EXCEPT !.job = "configure", !.pc = "call",
                          !.fn = SetterOf[setting], !.name = name, !.valid = valid]
    <3> DEFINE fn == SetterOf[setting]
    <3>1. fn \in Functions
      BY <2>3 DEF Functions
    <3> HIDE DEF fn
    <3> QED BY <1>5, <2>3, <3>1 DEF fn
  <2> QED BY <1>6, <2>1, <2>2, <2>3 DEF Configure
<1>7. ASSUME NEW name \in Names \cup {LongName}, NEW fn \in Getters, Query(fn, name)
      PROVE  RunOK' /\ SocketsOK'
  <2>1. fn \in Functions
    BY FunctionsAre
  <2>2. run' = [NoRun EXCEPT !.job = "query", !.pc = "call", !.fn = fn, !.name = name]
    BY <1>7 DEF Query
  <2>3. run' \in RunType
    BY <2>1, <2>2, NoRunType, Zenon DEF RunType
  <2>4. run'.job = "query" /\ run'.pc = "call" /\ run'.calm = {}
    BY <2>2 DEF NoRun
  <2>5. RunOK'
    BY <2>3, <2>4, NothingCalm
  <2> QED BY <1>1, <2>4, <2>5 DEF SocketsOK, ExceptionsAreHandled
<1> QED BY <1>2, <1>3, <1>4, <1>6, <1>7
(* The functions up to the ioctl().                                        *)
LEMMA OpenStep ==
  ASSUME IInv, OpenTempSocket
  PROVE  IInv'
<1> SUFFICES TableOK' /\ SocketsOK' /\ RunOK'
  BY Parts, PTL
<1>0. TableOK /\ SocketsOK /\ RunOK
  BY Parts
<1>1. table' = table /\ sockets = 0 /\ run.pc = "call"
  BY <1>0 DEF OpenTempSocket, SocketsOK, ExceptionsAreHandled
<1>2. TableOK' /\ Addressed' = Addressed
  BY <1>0, <1>1, TableSame
<1>3. CASE sockets' = sockets + 1 /\ run' = [run EXCEPT !.pc = "ioctl"]
  <2>1. run' \in RunType
    BY <1>0, <1>3, Zenon DEF RunOK, RunType
  <2>2. /\ run'.pc = "ioctl" /\ run'.job = run.job /\ run'.fn = run.fn /\ run'.name = run.name
        /\ run'.list = run.list /\ run'.calm = run.calm /\ run'.blank = run.blank
    BY <1>0, <1>3 DEF RunOK, RunType
  <2>3. PrintCalls'
    BY <1>0, <2>2 DEF RunOK, PrintCalls
  <2>4. CalmOK'
    BY <1>0, <1>1, <1>2, <2>2 DEF RunOK, CalmOK, Listing
  <2>5. SocketsOK'
    BY <1>1, <1>3, <2>2 DEF SocketsOK, ExceptionsAreHandled
  <2> QED BY <1>2, <2>1, <2>3, <2>4, <2>5 DEF RunOK
<1>4. CASE run' = [Threw EXCEPT !.calm = {}] /\ sockets' = sockets
  <2>0. Threw \in RunType
    BY <1>0, ThrewIs DEF RunOK
  <2>1. run' \in RunType
    BY <1>4, <2>0, Zenon DEF RunType
  <2>2. /\ run'.pc = Threw.pc /\ run'.job = Threw.job /\ run'.fn = Threw.fn
        /\ run'.name = Threw.name /\ run'.calm = {}
    BY <1>4, <2>0 DEF RunType
  <2>3. CASE run.job = "print" /\ run.fn # "getNetworkInterfaces"
    <3>1. /\ run'.pc \in {"call", "next"} /\ run'.fn \in Asked /\ run'.name \in Names
      BY <1>0, <2>2, <2>3, ThrewIs DEF RunOK
    <3>2. PrintCalls' /\ CalmOK'
      BY <2>2, <3>1, FollowingIs DEF PrintCalls, CalmOK, Asked
    <3> QED BY <1>1, <1>2, <1>4, <2>1, <3>1, <3>2 DEF RunOK, SocketsOK, ExceptionsAreHandled
  <2>4. CASE ~(run.job = "print" /\ run.fn # "getNetworkInterfaces")
    <3>1. Threw = Exit(-1) \/ Threw = Terminate("getNetworkInterfaces")
      BY <1>0, <2>4, ThrewIs DEF RunOK
    <3>2. /\ Threw.job = "none"
          /\ \/ Threw.pc = "exited"
             \/ Threw.pc = "terminated" /\ Threw.fn = "getNetworkInterfaces"
      <4>1. CASE Threw = Exit(-1)
        BY <4>1, ExitIs
      <4>2. CASE Threw = Terminate("getNetworkInterfaces")
        BY <4>2, TerminateIs, FunctionsAre
      <4> QED BY <3>1, <4>1, <4>2
    <3>3. RunOK'
      BY <2>1, <2>2, <3>2, NothingCalm
    <3> QED BY <1>1, <1>2, <1>4, <2>2, <3>2, <3>3 DEF SocketsOK, ExceptionsAreHandled
  <2> QED BY <2>3, <2>4
<1> QED BY <1>3, <1>4 DEF OpenTempSocket

(* getNetworkInterfaces().                                                 *)
LEMMA ListStep ==
  ASSUME IInv, GetNetworkInterfaces
  PROVE  IInv'
<1> SUFFICES TableOK' /\ SocketsOK' /\ RunOK'
  BY Parts, PTL
<1>0. TableOK /\ SocketsOK /\ RunOK
  BY Parts
<1>1. /\ table' = table /\ sockets = 1 /\ sockets' = 0
      /\ run.fn = "getNetworkInterfaces" /\ run.pc = "ioctl"
  BY <1>0 DEF GetNetworkInterfaces, InIoctl, SocketsOK, ExceptionsAreHandled
<1>2. TableOK' /\ Addressed' = Addressed
  BY <1>0, <1>1, TableSame
<1>3. PICK list \in SUBSET Addressed :
        run' = [run EXCEPT !.pc = "next", !.list = list,
                           !.calm = IF list = Addressed THEN @ ELSE {}]
  BY DEF GetNetworkInterfaces
<1> DEFINE calm == IF list = Addressed THEN run.calm ELSE {}
<1>4. run \in RunType /\ run.calm \subseteq Addressed
  BY <1>0 DEF RunOK, CalmOK
<1>5. list \in SUBSET Names /\ calm \in SUBSET Names
  BY <1>4 DEF Addressed, Present, RunType
<1>6. calm \subseteq list /\ calm \subseteq run.calm
  BY <1>4
<1>7. run' = [run EXCEPT !.pc = "next", !.list = list, !.calm = calm]
  BY <1>3
<1> HIDE DEF calm
<1>8. run' \in RunType
  BY <1>4, <1>5, <1>7, Zenon DEF RunType
<1>9. /\ run'.pc = "next" /\ run'.job = run.job /\ run'.fn = run.fn /\ run'.name = run.name
      /\ run'.list = list /\ run'.calm = calm /\ run'.blank = run.blank
  BY <1>4, <1>7 DEF RunType
<1>10. PrintCalls'
  BY <1>0, <1>9 DEF RunOK, PrintCalls
<1>11. CalmOK'
  BY <1>0, <1>2, <1>4, <1>6, <1>9 DEF RunOK, CalmOK
<1> QED BY <1>1, <1>2, <1>8, <1>9, <1>10, <1>11 DEF RunOK, SocketsOK, ExceptionsAreHandled

(* The getters.                                                            *)
LEMMA GetStep ==
  ASSUME IInv,
         \/ GetInterfaceAddress \/ GetBroadcastAddress \/ GetNetmask \/ GetDestinationAddress
         \/ GetMTU \/ GetHardwareAddress
  PROVE  IInv'
<1> SUFFICES TableOK' /\ SocketsOK' /\ RunOK'
  BY Parts, PTL
<1>0. TableOK /\ SocketsOK /\ RunOK
  BY Parts
<1>1. table' = table /\ run.pc = "ioctl" /\ run.fn \in Getters
  BY FunctionsAre DEF GetInterfaceAddress, GetBroadcastAddress, GetNetmask, GetDestinationAddress,
     GetMTU, GetHardwareAddress, Get, InIoctl, Asked
<1>2. TableOK' /\ Addressed' = Addressed
  BY <1>0, <1>1, TableSame
<1>3. run.calm \subseteq Addressed' /\ run.fn # "getNetworkInterfaces"
  BY <1>0, <1>1, <1>2, FunctionsAre DEF RunOK, CalmOK, Asked
<1>4. run.job = "print" => run.fn # "getDestinationAddress"
  BY <1>0, FollowingIs DEF RunOK, PrintCalls, Asked
<1>5. ASSUME NEW known, Ends(run.name \in known),
             run.job = "print" =>
               \/ run.fn = "getMTU" /\ known = Present
               \/ run.fn \in Asked \ {"getMTU", "getHardwareAddress"} /\ known = Addressed
               \/ run.fn = "getHardwareAddress" /\ known = Present \cap Ether
      PROVE  RunOK' /\ SocketsOK'
  <2> DEFINE ok == run.name \in known
  <2>1. ok \in BOOLEAN /\ Ends(ok)
    BY <1>5
  <2>2. ~ok /\ run.job = "print" => Threw.blank \cap Threw.calm = {}
    BY <1>0, <1>3, <1>5, CalmDoesNotThrow
  <2> HIDE DEF ok
  <2> QED BY <1>0, <1>1, <1>3, <2>1, <2>2, EndsStep
<1>6. RunOK' /\ SocketsOK'
  BY <1>4, <1>5 DEF GetInterfaceAddress, GetBroadcastAddress, GetNetmask, GetDestinationAddress,
     GetMTU, GetHardwareAddress, Get, InIoctl, Asked
<1> QED BY <1>2, <1>6
(* The setters: what has an address keeps one.                             *)
LEMMA SetStep ==
  ASSUME IInv,
         \/ SetInterfaceAddress \/ SetBroadcastAddress \/ SetNetmask \/ SetDestinationAddress
         \/ SetMTU
  PROVE  IInv'
<1> SUFFICES TableOK' /\ SocketsOK' /\ RunOK'
  BY Parts, PTL
<1>0. TableOK /\ SocketsOK /\ RunOK
  BY Parts
<1>1. PICK known \in {Present, Addressed}, changes \in SUBSET (SUBSET Settings) :
        /\ Set(run.fn, known, changes)
        /\ \A changed \in changes :
             run.name \in known => run.name \in Addressed \/ changed \in {Settings, {}}
        /\ run.fn \in {"setInterfaceAddress", "setBroadcastAddress", "setNetmask",
                       "setDestinationAddress", "setMTU"}
        /\ run.pc = "ioctl"
  <2>1. CASE SetInterfaceAddress
    <3>1. FromAddress \in SUBSET (SUBSET Settings)
          /\ \A changed \in FromAddress : run.name \in Addressed \/ changed = Settings
      BY DEF FromAddress, Settings
    <3>2. Set("setInterfaceAddress", Present, FromAddress)
      BY <2>1 DEF SetInterfaceAddress
    <3>3. run.fn = "setInterfaceAddress" /\ run.pc = "ioctl"
      BY <3>2 DEF Set, InIoctl
    <3> QED BY <3>1, <3>2, <3>3
  <2>2. CASE SetBroadcastAddress
    <3>1. Set("setBroadcastAddress", Addressed, {{"broadcast"}})
      BY <2>2 DEF SetBroadcastAddress
    <3>2. run.fn = "setBroadcastAddress" /\ run.pc = "ioctl"
      BY <3>1 DEF Set, InIoctl
    <3> QED BY <3>1, <3>2 DEF Settings
  <2>3. CASE SetNetmask
    <3>1. FromNetmask \in SUBSET (SUBSET Settings)
      BY DEF FromNetmask, Settings
    <3>2. Set("setNetmask", Addressed, FromNetmask)
      BY <2>3 DEF SetNetmask
    <3>3. run.fn = "setNetmask" /\ run.pc = "ioctl"
      BY <3>2 DEF Set, InIoctl
    <3> QED BY <3>1, <3>2, <3>3
  <2>4. CASE SetDestinationAddress
    <3>1. Set("setDestinationAddress", Addressed, {{"destination"}})
      BY <2>4 DEF SetDestinationAddress
    <3>2. run.fn = "setDestinationAddress" /\ run.pc = "ioctl"
      BY <3>1 DEF Set, InIoctl
    <3> QED BY <3>1, <3>2 DEF Settings
  <2>5. CASE SetMTU
    <3>1. Set("setMTU", Present, {{}})
      BY <2>5 DEF SetMTU
    <3>2. run.fn = "setMTU" /\ run.pc = "ioctl"
      BY <3>1 DEF Set, InIoctl
    <3> QED BY <3>1, <3>2
  <2> QED BY <2>1, <2>2, <2>3, <2>4, <2>5
<1>2. run.fn # "getNetworkInterfaces" /\ run.fn \notin Asked
  BY <1>1 DEF Asked
<1>3. run.job # "print" /\ run.calm = {}
  BY <1>0, <1>2, FollowingIs DEF RunOK, PrintCalls, CalmOK, Asked
<1>4. \E ok \in BOOLEAN : Ends(ok)
  BY <1>1 DEF Set
<1>5. RunOK' /\ SocketsOK'
  BY <1>0, <1>1, <1>2, <1>3, <1>4, EndsStep
<1>6. TableOK'
  <2>1. ASSUME NEW changed \in changes, run.name \in known,
               table' = [table EXCEPT ![run.name] =
                 IF changed = {} THEN @
                 ELSE [s \in Settings |-> IF s \notin changed THEN @[s]
                                          ELSE IF run.valid THEN "good" ELSE "junk"]]
        PROVE  TableOK'
    <3> DEFINE new == IF changed = {} THEN table[run.name]
                      ELSE [s \in Settings |-> IF s \notin changed THEN table[run.name][s]
                                               ELSE IF run.valid THEN "good" ELSE "junk"]
    <3>1. run.name \in Names /\ table[run.name] \in {Absent, NoAddress} \cup Configuration
      BY <1>0, <2>1 DEF TableOK, Addressed, Present
    <3>2. new \in {Absent, NoAddress} \cup Configuration
      <4>1. CASE changed = {}
        BY <3>1, <4>1
      <4>2. CASE changed = Settings
        BY <4>2 DEF Configuration, Settings
      <4>3. CASE changed \notin {Settings, {}}
        <5>1. table[run.name] \in Configuration
          BY <1>1, <2>1, <3>1, <4>3 DEF Addressed, Present
        <5>2. \A s \in Settings : table[run.name][s] \in {"good", "junk"}
          BY <5>1 DEF Configuration
        <5> QED BY <4>3, <5>2 DEF Configuration
      <4> QED BY <4>1, <4>2, <4>3
    <3>3. table' = [table EXCEPT ![run.name] = new]
      BY <2>1
    <3> HIDE DEF new
    <3> QED BY <1>0, <3>1, <3>2, <3>3 DEF TableOK
  <2>2. CASE table' = table
    BY <1>0, <2>2, TableSame
  <2> QED BY <1>1, <2>1, <2>2 DEF Set
<1> QED BY <1>5, <1>6

(* Somebody else: what is disturbed is calm no more.                       *)
LEMMA ReconfigureStep ==
  ASSUME IInv, NEW n \in Names, Reconfigure(n)
  PROVE  IInv'
<1> SUFFICES TableOK' /\ SocketsOK' /\ RunOK'
  BY Parts, PTL
<1>0. TableOK /\ SocketsOK /\ RunOK
  BY Parts
<1>1. AllGood \in Configuration
  BY DEF AllGood, Configuration
<1>2. PICK c \in {Absent, NoAddress, AllGood} : table' = [table EXCEPT ![n] = c]
  BY DEF Reconfigure
<1>3. TableOK'
  BY <1>0, <1>1, <1>2 DEF TableOK
<1>4. Addressed \ {n} \subseteq Addressed'
  BY <1>0, <1>2 DEF TableOK, Addressed, Present
<1> DEFINE calm == run.calm \ {n}
<1>5. run' = [run EXCEPT !.calm = calm] /\ run \in RunType
  BY <1>0 DEF Reconfigure, RunOK
<1>6. calm \in SUBSET Names /\ calm \subseteq Addressed' /\ calm \subseteq run.calm
  BY <1>0, <1>4 DEF RunOK, CalmOK, RunType
<1> HIDE DEF calm
<1>7. run' \in RunType
  BY <1>5, <1>6, Zenon DEF RunType
<1>8. /\ run'.pc = run.pc /\ run'.job = run.job /\ run'.fn = run.fn /\ run'.name = run.name
      /\ run'.valid = run.valid /\ run'.list = run.list /\ run'.calm = calm
      /\ run'.blank = run.blank
  BY <1>5 DEF RunType
<1>9. PrintCalls'
  BY <1>0, <1>8 DEF RunOK, PrintCalls
<1>10. CalmOK'
  BY <1>0, <1>6, <1>8 DEF RunOK, CalmOK, Listing
<1>11. SocketsOK'
  BY <1>0, <1>8 DEF SocketsOK, ExceptionsAreHandled, Reconfigure
<1> QED BY <1>3, <1>7, <1>9, <1>10, <1>11 DEF RunOK

LEMMA NextIInv == IInv /\ [Next]_vars => IInv'
<1> SUFFICES ASSUME IInv, [Next]_vars PROVE IInv'
  OBVIOUS
<1>1. CASE UNCHANGED vars
  <2>1. TableOK /\ SocketsOK /\ RunOK
    BY Parts
  <2>2. TableOK' /\ SocketsOK' /\ RunOK'
    BY <1>1, <2>1, TableSame
       DEF vars, SocketsOK, ExceptionsAreHandled, RunOK, PrintCalls, CalmOK, Listing
  <2> QED BY <2>2, Parts, PTL
<1>2. CASE Next
  BY <1>2, ProgramStep, OpenStep, ListStep, GetStep, SetStep, ReconfigureStep DEF Next
<1> QED BY <1>1, <1>2
-----------------------------------------------------------------------------
(* The theorems.                                                           *)

(* The inductive invariant.                                                *)
THEOREM Inductive == Spec => []IInv
BY InitIInv, NextIInv, PTL DEF Spec

(* All variables have their types.                                         *)
THEOREM TypeCorrect == Spec => []TypeOK
<1>1. IInv => TypeOK
  BY DEF IInv
<1> QED BY <1>1, Inductive, PTL

(* No function leaks its temporary socket, and no exception but those of   *)
(* getNetworkInterfaces() and stoi() ends mini_ifconfig.                   *)
THEOREM Handled == Spec => []ExceptionsAreHandled
<1>1. IInv => ExceptionsAreHandled
  BY DEF IInv
<1> QED BY <1>1, Inductive, PTL

(* When print() is through it has shown whatever nothing has disturbed.    *)
THEOREM AllShown == Spec => PrintShowsTheCalm
<1>1. IInv /\ [Next]_vars =>
        [run.pc = "next" /\ run'.pc = "exited" => run.calm \subseteq run.shown \ run.blank]_vars
  <2> SUFFICES ASSUME IInv, Next, run.pc = "next", run'.pc = "exited"
               PROVE  run.calm \subseteq run.shown \ run.blank
    BY DEF vars
  <2>0. RunOK
    BY Parts
  <2>1. \A n \in Names : ~Reconfigure(n)
    BY <2>0 DEF Reconfigure, RunOK, RunType
  <2>2. NextInterface
    BY <2>1 DEF Next, PrintAll, Configure, Query, Over, OpenTempSocket, GetNetworkInterfaces,
       GetInterfaceAddress, GetBroadcastAddress, GetNetmask, GetDestinationAddress, GetMTU,
       GetHardwareAddress, Get, SetInterfaceAddress, SetBroadcastAddress, SetNetmask,
       SetDestinationAddress, SetMTU, Set, InIoctl
  <2>3. run.list = run.shown
    BY <2>0, <2>2 DEF NextInterface, RunOK, RunType
  <2>4. run.calm \subseteq run.list /\ run.calm \cap run.blank = {}
    BY <2>0 DEF RunOK, CalmOK, Listing
  <2> QED BY <2>3, <2>4
<1> QED BY <1>1, Inductive, PTL DEF Spec, PrintShowsTheCalm

(* What a setter changes: its own setting, and what is made from it.       *)
LEMMA ChangesAre ==
  ASSUME NEW s \in Settings, run.fn = SetterOf[s],
         \/ SetInterfaceAddress \/ SetBroadcastAddress \/ SetNetmask \/ SetDestinationAddress
  PROVE  \E known \in {Present, Addressed}, changes \in SUBSET (SUBSET Settings) :
           /\ Set(run.fn, known, changes)
           /\ \A changed \in changes : s \in changed /\ changed \subseteq MadeFrom[s]
<1>0. /\ s = "address" => run.fn = "setInterfaceAddress"
      /\ s = "netmask" => run.fn = "setNetmask"
      /\ s = "broadcast" => run.fn = "setBroadcastAddress"
      /\ s = "destination" => run.fn = "setDestinationAddress"
  BY SetterOfIs
<1>1. CASE s = "address"
  <2>1. Set(run.fn, Present, FromAddress)
    BY <1>0, <1>1 DEF SetInterfaceAddress, SetBroadcastAddress, SetNetmask,
       SetDestinationAddress, Set, InIoctl
  <2>2. FromAddress \in SUBSET (SUBSET Settings)
        /\ \A changed \in FromAddress : s \in changed /\ changed \subseteq MadeFrom[s]
    BY <1>1 DEF FromAddress, MadeFrom, Settings
  <2> QED BY <2>1, <2>2
<1>2. CASE s = "netmask"
  <2>1. Set(run.fn, Addressed, FromNetmask)
    BY <1>0, <1>2 DEF SetInterfaceAddress, SetBroadcastAddress, SetNetmask,
       SetDestinationAddress, Set, InIoctl
  <2>2. FromNetmask \in SUBSET (SUBSET Settings)
        /\ \A changed \in FromNetmask : s \in changed /\ changed \subseteq MadeFrom[s]
    BY <1>2 DEF FromNetmask, MadeFrom, Settings
  <2> QED BY <2>1, <2>2
<1>3. CASE s \in {"broadcast", "destination"}
  <2>1. Set(run.fn, Addressed, {{s}})
    BY <1>0, <1>3 DEF SetInterfaceAddress, SetBroadcastAddress, SetNetmask,
       SetDestinationAddress, Set, InIoctl
  <2>2. MadeFrom[s] = {s}
    BY <1>3 DEF MadeFrom
  <2> QED BY <2>1, <2>2
<1> QED BY <1>1, <1>2, <1>3 DEF Settings

(* When configure() returns 0 the setting is the value it was given, or    *)
(* junk for a text that is no address, and the other settings are as they  *)
(* were but for those that the kernel makes from this one.                 *)
THEOREM ZeroIsTrue == Spec => ZeroMeansSet
<1>1. IInv /\ [Next]_vars =>
        [\A s \in Settings :
           run.fn = SetterOf[s] /\ run.pc = "ioctl" /\ run'.pc = "exited" =>
             \/ run'.code = -1 /\ table' = table
             \/ /\ table'[run.name][s] = IF run.valid THEN "good" ELSE "junk"
                /\ \A r \in Settings \ MadeFrom[s] :
                     table'[run.name][r] = table[run.name][r]
                /\ \A n \in Names \ {run.name} : table'[n] = table[n]]_vars
  <2> SUFFICES ASSUME IInv, Next, NEW s \in Settings,
                      run.fn = SetterOf[s], run.pc = "ioctl", run'.pc = "exited"
               PROVE  \/ run'.code = -1 /\ table' = table
                      \/ /\ table'[run.name][s] = IF run.valid THEN "good" ELSE "junk"
                         /\ \A r \in Settings \ MadeFrom[s] :
                              table'[run.name][r] = table[run.name][r]
                         /\ \A n \in Names \ {run.name} : table'[n] = table[n]
    BY DEF vars
  <2>0. TableOK /\ RunOK
    BY Parts
  <2>1. run.fn \in {"setInterfaceAddress", "setNetmask", "setBroadcastAddress",
                    "setDestinationAddress"}
    BY SetterOfIs DEF Settings
  <2>2. \A n \in Names : ~Reconfigure(n)
    BY <2>0 DEF Reconfigure, RunOK, RunType
  <2>3. SetInterfaceAddress \/ SetBroadcastAddress \/ SetNetmask \/ SetDestinationAddress
    BY <2>1, <2>2 DEF Next, PrintAll, NextInterface, Configure, Query, Over, OpenTempSocket,
       GetNetworkInterfaces, GetInterfaceAddress, GetBroadcastAddress, GetNetmask,
       GetDestinationAddress, GetMTU, GetHardwareAddress, Get, SetMTU, Set, InIoctl
  <2>4. PICK known \in {Present, Addressed}, changes \in SUBSET (SUBSET Settings) :
          /\ Set(run.fn, known, changes)
          /\ \A changed \in changes : s \in changed /\ changed \subseteq MadeFrom[s]
    BY <2>3, ChangesAre
  <2>5. ASSUME NEW changed \in changes, run.name \in known,
               table' = [table EXCEPT ![run.name] =
                 IF changed = {} THEN @
                 ELSE [r \in Settings |-> IF r \notin changed THEN @[r]
                                          ELSE IF run.valid THEN "good" ELSE "junk"]]
        PROVE  /\ table'[run.name][s] = IF run.valid THEN "good" ELSE "junk"
               /\ \A r \in Settings \ MadeFrom[s] : table'[run.name][r] = table[run.name][r]
               /\ \A n \in Names \ {run.name} : table'[n] = table[n]
    <3>1. run.name \in Names /\ s \in changed /\ changed \subseteq MadeFrom[s]
      BY <2>4, <2>5 DEF Addressed, Present
    <3>2. table'[run.name] = [r \in Settings |-> IF r \notin changed THEN table[run.name][r]
                                                 ELSE IF run.valid THEN "good" ELSE "junk"]
      BY <2>0, <2>5, <3>1 DEF TableOK
    <3>3. \A n \in Names \ {run.name} : table'[n] = table[n]
      BY <2>0, <2>5, <3>1 DEF TableOK
    <3> QED BY <3>1, <3>2, <3>3
  <2>6. CASE Ends(FALSE) /\ table' = table
    <3>1. run' = Threw
      BY <2>6 DEF Ends
    <3>2. CASE run.job = "print"
      <4>1. run.fn \notin Asked \cup {"getNetworkInterfaces"}
        BY <2>1 DEF Asked
      <4> QED BY <2>0, <3>2, <4>1, FollowingIs DEF RunOK, PrintCalls, Asked
    <3>3. CASE run.job # "print"
      BY <2>6, <3>1, <3>3, ExitIs DEF Threw
    <3> QED BY <3>2, <3>3
  <2> QED BY <2>4, <2>5, <2>6 DEF Set
<1> QED BY <1>1, Inductive, PTL DEF Spec, ZeroMeansSet

-----------------------------------------------------------------------------
(* Resolver: octets and addresses.                                         *)

LEMMA AddressIsSeq ==
  ASSUME NEW a \in Address
  PROVE  a \in Seq(-128..255) /\ Len(a) = Length
<1>0. Octets \subseteq -128..255 /\ Length \in Nat
  BY ResolverAssumption
<1>1. a \in [1..Length -> -128..255] /\ Length \in Nat
  BY <1>0 DEF Address
<1>2. a \in Seq(-128..255)
  BY <1>1, SeqDef
<1>3. Len(a) \in Nat /\ DOMAIN a = 1..Len(a)
  BY <1>2, LenProperties
<1>4. Len(a) = Length
  BY <1>1, <1>3
<1> QED BY <1>2, <1>4

LEMMA OctetsOfAddress ==
  ASSUME NEW a \in Address, NEW i \in 1..Length
  PROVE  a[i] \in Octets /\ a[i] \in 0..255
BY ResolverAssumption DEF Address

LEMMA SameAddress ==
  ASSUME NEW a \in Address, NEW b \in Address, \A i \in 1..Length : a[i] = b[i]
  PROVE  a = b
<1>1. a \in [1..Length -> Octets] /\ b \in [1..Length -> Octets]
  BY DEF Address
<1>2. a = [i \in 1..Length |-> a[i]] /\ b = [i \in 1..Length |-> b[i]]
  BY <1>1
<1>3. [i \in 1..Length |-> a[i]] = [i \in 1..Length |-> b[i]]
  OBVIOUS
<1> QED BY <1>2, <1>3, Zenon

(* An octet is printed as it is, or as a negative number.                  *)
LEMMA AsIntIsOctet ==
  ASSUME NEW o \in 0..255
  PROVE  /\ AsInt(o) \in -128..255
         /\ IF SignedChar /\ o > 127 THEN AsInt(o) < 0 ELSE AsInt(o) = o
BY DEF AsInt

LEMMA AppendOctet ==
  ASSUME NEW s \in Seq(-128..255), NEW x \in -128..255
  PROVE  /\ Append(s, x) \in Seq(-128..255)
         /\ Len(Append(s, x)) = Len(s) + 1
         /\ \A i \in 1..Len(s) : Append(s, x)[i] = s[i]
         /\ Append(s, x)[Len(s) + 1] = x
BY AppendProperties

-----------------------------------------------------------------------------
LEMMA InitResolverInv == ResolverInit => ResolverInv
<1> SUFFICES ASSUME ResolverInit PROVE ResolverInv
  OBVIOUS
<1>1. NoCall \in CallType /\ LengthOK(NoCall) /\ NoCall.pc = "idle"
  BY ResolverAssumption, EmptySeq DEF NoCall, CallType, LengthOK
<1>2. \A t \in Threads : call[t] = NoCall
  BY DEF ResolverInit
<1>3. ResolverTypeOK
  BY <1>1, <1>2, ResolverAssumption DEF ResolverInit, ResolverTypeOK
<1>4. LockOK
  BY <1>1, <1>2, ResolverAssumption DEF ResolverInit, LockOK
<1>5. \A t \in Threads : CallOK(call[t]) /\ Right(call[t])
  BY <1>1, <1>2 DEF CallOK, Right
<1> QED BY <1>3, <1>4, <1>5 DEF ResolverInv, RightUnlessDisturbed

(* A step that leaves the buffer and the lock alone and changes one call.  *)
LEMMA CallStep ==
  ASSUME ResolverInv, NEW t \in Threads, NEW c \in CallType,
         call[t].pc # "locked", c.pc # "locked",
         LengthOK(c), CallOK(c), Right(c),
         call' = [call EXCEPT ![t] = c],
         UNCHANGED <<dns, hostent, lock>>
  PROVE  ResolverInv'
<1>1. call' \in [Threads -> CallType]
  BY DEF ResolverInv, ResolverTypeOK
<1>2. call'[t] = c /\ \A u \in Threads \ {t} : call'[u] = call[u]
  BY DEF ResolverInv, ResolverTypeOK
<1>3. \A u \in Threads : LengthOK(call'[u])
  BY <1>2 DEF ResolverInv, ResolverTypeOK
<1>4. ResolverTypeOK'
  BY <1>1, <1>3 DEF ResolverInv, ResolverTypeOK
<1>5. LockOK'
  BY <1>2 DEF ResolverInv, LockOK
<1>6. \A u \in Threads : CallOK(call[u])'
  <2> SUFFICES ASSUME NEW u \in Threads PROVE CallOK(call[u])'
    OBVIOUS
  <2>1. CallOK(call'[u])
    BY <1>2 DEF ResolverInv
  <2> QED BY <2>1 DEF CallOK
<1>7. RightUnlessDisturbed'
  BY <1>2 DEF ResolverInv, RightUnlessDisturbed, Right
<1> QED BY <1>4, <1>5, <1>6, <1>7 DEF ResolverInv

(* What a call looks like when it is resumed.                              *)
LEMMA CallFacts ==
  ASSUME ResolverInv, NEW t \in Threads
  PROVE  /\ call[t] \in CallType /\ LengthOK(call[t])
         /\ CallOK(call[t]) /\ Right(call[t])
         /\ call[t].out \in Seq(-128..255) /\ Len(call[t].out) \in Nat
<1>1. call[t] \in CallType /\ LengthOK(call[t]) /\ CallOK(call[t]) /\ Right(call[t])
  BY DEF ResolverInv, ResolverTypeOK, RightUnlessDisturbed
<1>2. call[t].out \in Seq(-128..255)
  BY <1>1 DEF CallType
<1> QED BY <1>1, <1>2, LenProperties

LEMMA ResolveHostnameStep ==
  ASSUME ResolverInv, NEW t \in Threads, NEW name \in Hosts, ResolveHostname(t, name)
  PROVE  ResolverInv'
<1> DEFINE c == [op |-> "resolveHostname", pc |-> "lookup", arg |-> name,
                 out |-> <<>>, meant |-> dns[name], disturbed |-> FALSE]
<1>1. dns[name] \in Address
  BY DEF ResolverInv, ResolverTypeOK
<1>2. Len(c.out) = 0 /\ <<>> \in Seq(-128..255)
  BY EmptySeq
<1>3. c \in CallType
  BY <1>1, <1>2 DEF CallType
<1>4. LengthOK(c)
  BY <1>2, ResolverAssumption DEF LengthOK
<1>5. CallOK(c) /\ Right(c)
  BY <1>1 DEF CallOK, Right
<1>6. call[t].pc # "locked" /\ c.pc # "locked"
  BY DEF ResolveHostname, Idle
<1>7. call' = [call EXCEPT ![t] = c] /\ UNCHANGED <<dns, hostent, lock>>
  BY DEF ResolveHostname
<1> HIDE DEF c
<1> QED BY <1>3, <1>4, <1>5, <1>6, <1>7, CallStep

(* The octet a thread reads next is that of the address it means.          *)
LEMMA PrintOctetStep ==
  ASSUME ResolverInv, NEW t \in Threads, PrintOctet(t)
  PROVE  ResolverInv'
<1> DEFINE n == Len(call[t].out) + 1
<1>1. call[t].op = "resolveHostname" /\ call[t].pc = "read"
  BY DEF PrintOctet
<1>2. call[t] \in CallType /\ CallOK(call[t]) /\ n \in 1..Length
      /\ call[t].out \in Seq(-128..255) /\ Len(call[t].out) \in Nat
  BY <1>1, CallFacts, ResolverAssumption DEF LengthOK
<1>3. PICK o \in Octet(n) :
        call' = [call EXCEPT ![t].out = Append(@, AsInt(o)),
                             ![t].pc = IF n = Length THEN "returned" ELSE "read"]
  BY DEF PrintOctet
<1> DEFINE c == [call[t] EXCEPT !.out = Append(@, AsInt(o)),
                                !.pc = IF n = Length THEN "returned" ELSE "read"]
<1>4. o \in 0..255
  <2>1. CASE hostent # Scratch
    <3>1. hostent \in Address /\ o = hostent[n]
      BY <1>3, <2>1 DEF ResolverInv, ResolverTypeOK, Octet
    <3>2. hostent[n] \in 0..255
      BY <1>2, <3>1, OctetsOfAddress
    <3> QED BY <3>1, <3>2
  <2>2. CASE hostent = Scratch
    BY <1>3, <2>2, ResolverAssumption DEF Octet
  <2> QED BY <2>1, <2>2
<1>5. AsInt(o) \in -128..255
  BY <1>4, AsIntIsOctet
<1>6. /\ c.op = "resolveHostname"
      /\ c.pc = IF n = Length THEN "returned" ELSE "read"
      /\ c.out = Append(call[t].out, AsInt(o))
      /\ c.meant = call[t].meant /\ c.disturbed = call[t].disturbed
      /\ c.arg = call[t].arg
  BY <1>1, <1>2 DEF CallType
<1>7. /\ c.out \in Seq(-128..255) /\ Len(c.out) = n
      /\ \A i \in 1..(n - 1) : c.out[i] = call[t].out[i]
      /\ c.out[n] = AsInt(o)
  BY <1>2, <1>5, <1>6, AppendOctet
<1>8. c \in CallType
  <2> DEFINE out == Append(call[t].out, AsInt(o))
             pc == IF n = Length THEN "returned" ELSE "read"
  <2>1. out \in Seq(-128..255)
    BY <1>2, <1>5, AppendOctet
  <2>2. pc \in {"read", "returned"}
    OBVIOUS
  <2>3. c = [call[t] EXCEPT !.out = out, !.pc = pc] /\ call[t] \in CallType
    BY <1>2
  <2> HIDE DEF out, pc, c
  <2> QED BY <2>1, <2>2, <2>3 DEF CallType
<1>9. LengthOK(c)
  BY <1>2, <1>6, <1>7, ResolverAssumption DEF LengthOK
<1>10. call[t].meant \in Address
  BY <1>1, <1>2 DEF CallOK
<1>11. ~c.disturbed => \A i \in 1..n : c.out[i] = AsInt(c.meant[i])
  <2> SUFFICES ASSUME ~call[t].disturbed, NEW i \in 1..n
               PROVE  c.out[i] = AsInt(call[t].meant[i])
    BY <1>6
  <2>1. hostent = call[t].meant
        /\ \A j \in 1..Len(call[t].out) : call[t].out[j] = AsInt(call[t].meant[j])
    BY <1>1, <1>2 DEF CallOK
  <2>2. CASE i = n
    <3>1. o = call[t].meant[n]
      BY <1>3, <1>10, <2>1, ScratchAssumption DEF Octet
    <3> QED BY <1>5, <1>7, <2>2, <3>1
  <2>3. CASE i \in 1..(n - 1)
    <3>1. i \in 1..Len(call[t].out) /\ c.out[i] = call[t].out[i]
      BY <1>2, <1>7, <2>3
    <3> QED BY <2>1, <3>1
  <2> QED BY <1>2, <2>2, <2>3
<1>12. CallOK(c)
  <2>1. c.pc = "read" /\ ~c.disturbed => hostent = c.meant
    BY <1>1, <1>2, <1>6 DEF CallOK
  <2> QED BY <1>6, <1>7, <1>10, <1>11, <2>1 DEF CallOK
<1>13. Right(c)
  <2> SUFFICES ASSUME c.pc = "returned", ~c.disturbed, NEW i \in 1..Length
               PROVE  /\ Len(c.out) = Length
                      /\ IF SignedChar /\ c.meant[i] > 127 THEN c.out[i] < 0
                                                          ELSE c.out[i] = c.meant[i]
    BY <1>6 DEF Right
  <2>1. n = Length
    BY <1>6
  <2>2. c.meant[i] \in 0..255 /\ c.out[i] = AsInt(c.meant[i])
    BY <1>6, <1>10, <1>11, <2>1, OctetsOfAddress
  <2> QED BY <1>7, <2>1, <2>2, AsIntIsOctet
<1>14. call' = [call EXCEPT ![t] = c] /\ UNCHANGED <<dns, hostent, lock>>
  BY <1>3 DEF PrintOctet
<1>15. call[t].pc # "locked" /\ c.pc # "locked"
  BY <1>1, <1>6
<1> HIDE DEF c
<1> QED BY <1>8, <1>9, <1>12, <1>13, <1>14, <1>15, CallStep

(* connect() with an address for a host, for itself, or for the text that  *)
(* resolveHostname() returned.                                             *)
LEMMA FillAddressStep ==
  ASSUME ResolverInv, NEW t \in Threads, NEW arg \in Hosts \cup Seq(-128..255),
         NEW meant \in Address, NEW disturbed \in BOOLEAN,
         Idle(t), FillAddress(t, arg, meant, disturbed),
         arg \in Hosts => meant = dns[arg],
         arg \in Address /\ ~disturbed => arg = meant
  PROVE  ResolverInv'
<1> DEFINE dotted == arg \in Address
           c == [op |-> "connect", pc |-> IF dotted THEN "returned" ELSE "lookup",
                 arg |-> arg, out |-> IF dotted THEN arg ELSE <<>>,
                 meant |-> meant, disturbed |-> disturbed]
<1>1. call' = [call EXCEPT ![t] = c] /\ UNCHANGED <<dns, hostent, lock>>
  BY DEF FillAddress
<1>2. call[t].pc # "locked"
  BY DEF Idle
<1>3. c \in CallType /\ LengthOK(c) /\ CallOK(c) /\ Right(c) /\ c.pc # "locked"
  <2>1. CASE dotted
    <3>1. arg \in Seq(-128..255) /\ Len(arg) = Length
      BY <2>1, AddressIsSeq
    <3>2. c = [op |-> "connect", pc |-> "returned", arg |-> arg, out |-> arg,
               meant |-> meant, disturbed |-> disturbed]
      BY <2>1
    <3> HIDE DEF c
    <3>3. c \in CallType
      BY <3>1, <3>2 DEF CallType
    <3>4. LengthOK(c) /\ CallOK(c)
      BY <3>1, <3>2, ResolverAssumption DEF LengthOK, CallOK
    <3>5. Right(c)
      BY <2>1, <3>1, <3>2 DEF Right
    <3> QED BY <3>2, <3>3, <3>4, <3>5
  <2>2. CASE ~dotted
    <3>1. Len(<<>>) = 0 /\ <<>> \in Seq(-128..255)
      BY EmptySeq
    <3>2. c = [op |-> "connect", pc |-> "lookup", arg |-> arg, out |-> <<>>,
               meant |-> meant, disturbed |-> disturbed]
      BY <2>2
    <3> HIDE DEF c
    <3>3. c \in CallType
      BY <3>1, <3>2 DEF CallType
    <3>4. LengthOK(c) /\ CallOK(c) /\ Right(c)
      BY <3>1, <3>2, ResolverAssumption DEF LengthOK, CallOK, Right
    <3> QED BY <3>2, <3>3, <3>4
  <2> QED BY <2>1, <2>2
<1> HIDE DEF c
<1> QED BY <1>1, <1>2, <1>3, CallStep

LEMMA ConnectStep ==
  ASSUME ResolverInv, NEW t \in Threads, Connect(t)
  PROVE  ResolverInv'
<1>1. Idle(t)
  BY DEF Connect
<1>2. ASSUME NEW name \in Hosts, FillAddress(t, name, dns[name], FALSE)
      PROVE  ResolverInv'
  <2>1. dns[name] \in Address
    BY DEF ResolverInv, ResolverTypeOK
  <2>2. name \notin Address
    BY AddressIsSeq, ResolverAssumption
  <2> QED BY <1>1, <1>2, <2>1, <2>2, FillAddressStep
<1>3. ASSUME NEW address \in Address, FillAddress(t, address, address, FALSE)
      PROVE  ResolverInv'
  <2>1. address \in Seq(-128..255) /\ address \notin Hosts
    BY AddressIsSeq, ResolverAssumption
  <2> QED BY <1>1, <1>3, <2>1, FillAddressStep
<1>4. ASSUME call[t].op = "resolveHostname", call[t].pc = "returned",
             FillAddress(t, call[t].out, call[t].meant, call[t].disturbed)
      PROVE  ResolverInv'
  <2>1. call[t].out \in Seq(-128..255) /\ call[t].out \notin Hosts
        /\ call[t].disturbed \in BOOLEAN /\ call[t].meant \in Address
    BY <1>4, CallFacts, ResolverAssumption DEF CallType, CallOK
  <2>2. ASSUME call[t].out \in Address, ~call[t].disturbed
        PROVE  call[t].out = call[t].meant
    <3>1. \A i \in 1..Length : call[t].out[i] < 0 \/ call[t].out[i] = call[t].meant[i]
      BY <1>4, <2>2, CallFacts DEF Right
    <3>2. \A i \in 1..Length : call[t].out[i] = call[t].meant[i]
      <4> TAKE i \in 1..Length
      <4>1. call[t].out[i] \in 0..255
        BY <2>2, OctetsOfAddress
      <4> QED BY <3>1, <4>1
    <3> QED BY <2>1, <2>2, <3>2, SameAddress
  <2> QED BY <1>1, <1>4, <2>1, <2>2, FillAddressStep
<1> QED BY <1>2, <1>3, <1>4 DEF Connect

LEMMA CopyAddressStep ==
  ASSUME ResolverInv, NEW t \in Threads, CopyAddress(t)
  PROVE  ResolverInv'
<1>1. call[t].op = "connect" /\ call[t].pc = "read"
  BY DEF CopyAddress
<1>2. call[t] \in CallType /\ CallOK(call[t])
  BY CallFacts
<1>3. PICK address \in Address :
        /\ \A i \in 1..Length : address[i] \in Octet(i)
        /\ call' = [call EXCEPT ![t].out = address, ![t].pc = "returned"]
  BY DEF CopyAddress
<1>4. address \in Seq(-128..255) /\ Len(address) = Length
  BY AddressIsSeq
<1> DEFINE c == [call[t] EXCEPT !.out = address, !.pc = "returned"]
<1>5. /\ c.op = "connect" /\ c.pc = "returned" /\ c.out = address
      /\ c.meant = call[t].meant /\ c.disturbed = call[t].disturbed
  BY <1>1, <1>2 DEF CallType
<1>6. c \in CallType
  BY <1>2, <1>4 DEF CallType
<1>7. LengthOK(c) /\ CallOK(c)
  BY <1>1, <1>2, <1>4, <1>5, ResolverAssumption DEF LengthOK, CallOK
<1>8. Right(c)
  <2> SUFFICES ASSUME ~call[t].disturbed, NEW i \in 1..Length
               PROVE  address[i] = call[t].meant[i]
    BY <1>4, <1>5 DEF Right
  <2>1. hostent = call[t].meant /\ call[t].meant \in Address
    BY <1>1, <1>2 DEF CallOK
  <2> QED BY <1>3, <2>1, ScratchAssumption DEF Octet
<1>9. call' = [call EXCEPT ![t] = c] /\ UNCHANGED <<dns, hostent, lock>>
  BY <1>3 DEF CopyAddress
<1>10. call[t].pc # "locked" /\ c.pc # "locked"
  BY <1>1, <1>5
<1> HIDE DEF c
<1> QED BY <1>6, <1>7, <1>8, <1>9, <1>10, CallStep

LEMMA DisturbedIsCall ==
  ASSUME NEW c \in CallType
  PROVE  [c EXCEPT !.disturbed = TRUE] \in CallType
BY Zenon DEF CallType

(* The lookup makes scratch space of what others are reading: they are     *)
(* disturbed.                                                              *)
LEMMA LookupStep ==
  ASSUME ResolverInv, NEW t \in Threads, Lookup(t)
  PROVE  ResolverInv'
<1>1. /\ call[t].pc = "lookup" /\ lock = Nobody /\ lock' = t
      /\ hostent' = Scratch /\ dns' = dns
  BY DEF Lookup
<1>2. \A u \in Threads : call[u] \in CallType /\ LengthOK(call[u])
                         /\ CallOK(call[u]) /\ Right(call[u])
  BY CallFacts
<1>3. call'[t] = [call[t] EXCEPT !.pc = "locked"]
  BY DEF Lookup
<1>4. \A u \in Threads \ {t} :
        call'[u] = IF call[u].pc = "read" THEN [call[u] EXCEPT !.disturbed = TRUE]
                                          ELSE call[u]
  BY DEF Lookup
<1>5. /\ call'[t] \in CallType /\ call'[t].pc = "locked"
      /\ call'[t].op = call[t].op /\ call'[t].arg = call[t].arg
      /\ call'[t].out = call[t].out /\ call'[t].meant = call[t].meant
  BY <1>2, <1>3 DEF CallType
<1>6. \A u \in Threads \ {t} :
        /\ call'[u] \in CallType /\ call'[u].pc = call[u].pc
        /\ call'[u].op = call[u].op /\ call'[u].arg = call[u].arg
        /\ call'[u].out = call[u].out /\ call'[u].meant = call[u].meant
        /\ call[u].pc = "read" => call'[u].disturbed
        /\ call[u].pc # "read" => call'[u] = call[u]
  <2> TAKE u \in Threads \ {t}
  <2>1. CASE call[u].pc = "read"
    <3>1. call'[u] = [call[u] EXCEPT !.disturbed = TRUE]
      BY <1>4, <2>1
    <3>2. call'[u] \in CallType
      BY <1>2, <3>1, DisturbedIsCall
    <3>3. /\ call'[u].pc = call[u].pc /\ call'[u].op = call[u].op
          /\ call'[u].arg = call[u].arg /\ call'[u].out = call[u].out
          /\ call'[u].meant = call[u].meant
      BY <1>2, <3>1 DEF CallType
    <3>4. call'[u].disturbed = TRUE
      BY <1>2, <3>1 DEF CallType
    <3> QED BY <2>1, <3>2, <3>3, <3>4
  <2>2. CASE call[u].pc # "read"
    BY <1>2, <1>4, <2>2
  <2> QED BY <2>1, <2>2
<1>7. ResolverTypeOK'
  <2>1. DOMAIN call' = Threads /\ call' \in [Threads -> CallType]
    BY <1>5, <1>6 DEF Lookup
  <2>2. \A u \in Threads : LengthOK(call'[u])
    BY <1>1, <1>2, <1>5, <1>6, ResolverAssumption DEF LengthOK
  <2> QED BY <1>1, <2>1, <2>2 DEF ResolverInv, ResolverTypeOK
<1>8. LockOK'
  BY <1>1, <1>5, <1>6, ResolverAssumption DEF ResolverInv, LockOK
<1>9. \A u \in Threads : CallOK(call[u])'
  <2>1. CallOK(call[t])'
    BY <1>1, <1>2, <1>5 DEF CallOK
  <2>2. \A u \in Threads \ {t} : CallOK(call[u])'
    BY <1>1, <1>2, <1>6 DEF CallOK
  <2> QED BY <2>1, <2>2
<1>10. RightUnlessDisturbed'
  <2>1. \A u \in Threads : Right(call'[u])
    BY <1>2, <1>5, <1>6 DEF Right
  <2> QED BY <2>1 DEF RightUnlessDisturbed, Right
<1> QED BY <1>7, <1>8, <1>9, <1>10 DEF ResolverInv

(* While a thread has the lock all who are reading are disturbed, so the   *)
(* new content of the buffer is of no concern to them.                     *)
LEMMA LookupEndsStep ==
  ASSUME ResolverInv, NEW t \in Threads, LookupEnds(t)
  PROVE  ResolverInv'
<1>1. call[t].pc = "locked" /\ lock' = Nobody /\ dns' = dns
  BY DEF LookupEnds
<1>2. \A u \in Threads : call[u] \in CallType /\ LengthOK(call[u])
                         /\ CallOK(call[u]) /\ Right(call[u])
  BY CallFacts
<1>3. lock = t /\ hostent = Scratch
  BY <1>1, ResolverAssumption DEF ResolverInv, LockOK
<1>4. \A u \in Threads : call[u].pc = "read" => call[u].disturbed
  BY <1>2, <1>3, ScratchAssumption DEF CallOK
<1>5. PICK pc \in {"read", "threw"} :
        /\ call' = [call EXCEPT ![t].pc = pc]
        /\ pc = "read" => call[t].arg \in Hosts /\ hostent' = dns[call[t].arg]
        /\ pc = "threw" => hostent' = hostent
  BY DEF LookupEnds
<1>6. \A u \in Threads \ {t} : call'[u] = call[u]
  BY <1>5
<1>7. /\ call'[t] \in CallType /\ call'[t].pc = pc
      /\ call'[t].op = call[t].op /\ call'[t].arg = call[t].arg
      /\ call'[t].out = call[t].out /\ call'[t].meant = call[t].meant
      /\ call'[t].disturbed = call[t].disturbed
  <2>1. call'[t] = [call[t] EXCEPT !.pc = pc]
    BY <1>5 DEF ResolverInv, ResolverTypeOK
  <2>2. pc \in {"idle", "lookup", "locked", "read", "returned", "threw"}
    BY <1>5
  <2> QED BY <1>2, <2>1, <2>2 DEF CallType
<1>8. call[t].out = <<>> /\ Len(call[t].out) = 0 /\ call[t].op # "none"
      /\ call[t].meant \in Address
      /\ (call[t].arg \in Hosts => call[t].meant = dns[call[t].arg])
  BY <1>1, <1>2, EmptySeq DEF CallOK
<1>9. ResolverTypeOK'
  <2>1. hostent' \in Address \cup {Scratch}
    BY <1>3, <1>5 DEF ResolverInv, ResolverTypeOK
  <2>2. call' \in [Threads -> CallType]
    BY <1>2, <1>5, <1>6, <1>7 DEF ResolverInv, ResolverTypeOK
  <2>3. \A u \in Threads : LengthOK(call'[u])
    BY <1>2, <1>6, <1>7, <1>8, ResolverAssumption DEF LengthOK
  <2> QED BY <1>1, <2>1, <2>2, <2>3 DEF ResolverInv, ResolverTypeOK
<1>10. LockOK'
  BY <1>1, <1>3, <1>5, <1>6, <1>7, ResolverAssumption DEF ResolverInv, LockOK
<1>11. \A u \in Threads : CallOK(call[u])'
  <2>1. CallOK(call[t])'
    BY <1>1, <1>5, <1>7, <1>8 DEF CallOK
  <2>2. \A u \in Threads \ {t} : CallOK(call[u])'
    BY <1>1, <1>2, <1>4, <1>6 DEF CallOK
  <2> QED BY <2>1, <2>2
<1>12. RightUnlessDisturbed'
  BY <1>2, <1>5, <1>6, <1>7 DEF RightUnlessDisturbed, Right
<1> QED BY <1>9, <1>10, <1>11, <1>12 DEF ResolverInv

LEMMA NextResolverInv == ResolverInv /\ [ResolverNext]_resolverVars => ResolverInv'
<1> SUFFICES ASSUME ResolverInv, [ResolverNext]_resolverVars PROVE ResolverInv'
  OBVIOUS
<1>1. CASE UNCHANGED resolverVars
  BY <1>1 DEF resolverVars, ResolverInv, ResolverTypeOK, LengthOK, LockOK, CallOK, RightUnlessDisturbed, Right
<1>2. CASE ResolverNext
  BY <1>2, LookupStep, LookupEndsStep, ResolveHostnameStep, PrintOctetStep,
     ConnectStep, CopyAddressStep DEF ResolverNext
<1> QED BY <1>1, <1>2

-----------------------------------------------------------------------------
(* ResolverInv is an invariant: gethostbyname() in any number of threads.         *)
THEOREM ResolverInductive == ResolverSpec => []ResolverInv
BY InitResolverInv, NextResolverInv, PTL DEF ResolverSpec

(* resolveHostname() prints no more octets than an address has, and the    *)
(* calls and the buffer are of their types.                                *)
THEOREM ResolverTypeCorrect == ResolverSpec => []ResolverTypeOK
<1>1. ResolverInv => ResolverTypeOK
  BY DEF ResolverInv
<1> QED BY <1>1, ResolverInductive, PTL

(* Without another lookup in between connect() goes to the host it was     *)
(* called for, and resolveHostname() prints that host's octets, negative   *)
(* only where a signed char makes them so.                                 *)
THEOREM RightAddress == ResolverSpec => []RightUnlessDisturbed
<1>1. ResolverInv => RightUnlessDisturbed
  BY DEF ResolverInv
<1> QED BY <1>1, ResolverInductive, PTL

(* In a program with one thread nothing comes in between.                  *)
THEOREM NobodyDisturbs ==
  ASSUME NEW s \in Threads, Threads = {s}
  PROVE  ResolverSpec => []~call[s].disturbed
<1> DEFINE Calm == ~call[s].disturbed
<1>1. ResolverInit => Calm
  BY DEF ResolverInit, NoCall
<1>2. ResolverTypeOK /\ Calm /\ [ResolverNext]_resolverVars => Calm'
  <2> SUFFICES ASSUME ResolverTypeOK, Calm, [ResolverNext]_resolverVars PROVE Calm'
    OBVIOUS
  <2>0. call \in [Threads -> CallType]
    BY DEF ResolverTypeOK
  <2>1. CASE Lookup(s)
    <3>1. call'[s] = [call[s] EXCEPT !.pc = "locked"]
      BY <2>1 DEF Lookup
    <3> QED BY <2>0, <3>1 DEF CallType
  <2>2. CASE LookupEnds(s)
    BY <2>0, <2>2 DEF LookupEnds, CallType
  <2>3. CASE \E name \in Hosts : ResolveHostname(s, name)
    BY <2>0, <2>3 DEF ResolveHostname
  <2>4. CASE PrintOctet(s)
    BY <2>0, <2>4 DEF PrintOctet, CallType
  <2>5. CASE Connect(s)
    BY <2>0, <2>5 DEF Connect, FillAddress
  <2>6. CASE CopyAddress(s)
    BY <2>0, <2>6 DEF CopyAddress, CallType
  <2>7. CASE UNCHANGED resolverVars
    BY <2>7 DEF resolverVars
  <2> QED BY <2>1, <2>2, <2>3, <2>4, <2>5, <2>6, <2>7 DEF ResolverNext
<1> QED BY <1>1, <1>2, ResolverTypeCorrect, PTL DEF ResolverSpec
=============================================================================
