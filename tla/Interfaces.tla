----------------------------- MODULE Interfaces -----------------------------
(***************************************************************************)
(* The functions of SocketUtils.cpp that ask the kernel about network      *)
(* interfaces and configure them, and examples/mini_ifconfig.cpp, which is *)
(* run again and again, while interfaces come and go and are configured by *)
(* others.  A temporary socket is opened by each function and closed by    *)
(* its destructor, whether the function returns or throws.                 *)
(***************************************************************************)
EXTENDS Integers, FiniteSets

CONSTANTS
  Names,       \* names of interfaces
  LongName,    \* a name that does not fit into an ifreq
  Ether,       \* the interfaces with a hardware address getHardwareAddress() prints
  MaxListed,   \* 32: what fits into the array of getNetworkInterfaces()
  Absent,      \* no such interface
  NoAddress    \* an interface without IPv4 address

ASSUME InterfacesAssumption ==
  /\ LongName \notin Names /\ Ether \subseteq Names
  /\ MaxListed \in Nat \ {0}

Settings == {"address", "netmask", "broadcast", "destination"}

(* "junk" is what was on the stack of the function that set it.            *)
Configuration == [Settings -> {"good", "junk"}]

VARIABLES
  table,     \* kernel: the interfaces
  sockets,   \* temporary sockets that are open
  run        \* the program that runs, or how the last one ended

vars == <<table, sockets, run>>

(* What print() calls for every interface, in this order.                  *)
Following == [getMTU |-> "getInterfaceAddress", getInterfaceAddress |-> "getNetmask",
              getNetmask |-> "getBroadcastAddress", getBroadcastAddress |-> "getHardwareAddress"]

Getters == DOMAIN Following \cup {"getHardwareAddress", "getDestinationAddress"}

SetterOf == [mtu |-> "setMTU", address |-> "setInterfaceAddress", netmask |-> "setNetmask",
             broadcast |-> "setBroadcastAddress", destination |-> "setDestinationAddress"]

Functions == Getters \cup {SetterOf[s] : s \in DOMAIN SetterOf} \cup {"getNetworkInterfaces"}

(* fn and name are the function being called and its argument, valid says  *)
(* that the text to be set is an address or a number.  For the properties: *)
(* calm are the interfaces with an address that nothing has disturbed, and *)
(* blank those of them that print() has shown a <fail> for.                *)
RunType ==
  [job : {"none", "print", "query", "configure"},
   pc : {"call", "ioctl", "next", "exited", "terminated"}, code : {0, -1},
   fn : Functions \cup {"none"}, name : Names \cup {LongName}, valid : BOOLEAN,
   list : SUBSET Names, shown : SUBSET Names, calm : SUBSET Names, blank : SUBSET Names]

TypeOK ==
  /\ table \in [Names -> {Absent, NoAddress} \cup Configuration]
  /\ sockets \in Nat
  /\ run \in RunType

NoRun == [job |-> "none", pc |-> "exited", code |-> 0, fn |-> "none", name |-> LongName,
          valid |-> TRUE, list |-> {}, shown |-> {}, calm |-> {}, blank |-> {}]

AllGood == [s \in Settings |-> "good"]

Init ==
  /\ table \in [Names -> {Absent, NoAddress, AllGood}]
  /\ sockets = 0
  /\ run = NoRun

Present == {n \in Names : table[n] # Absent}

Addressed == {n \in Present : table[n] # NoAddress}

-----------------------------------------------------------------------------
(* The programs: what they do with the end of a call.                      *)

Exit(code) == [NoRun EXCEPT !.code = code]

Terminate(fn) == [NoRun EXCEPT !.pc = "terminated", !.fn = fn]

(* print() has the text for one setting of one interface.                  *)
Shown == IF run.fn \in DOMAIN Following
           THEN [run EXCEPT !.fn = Following[@], !.pc = "call"]
           ELSE [run EXCEPT !.shown = @ \cup {run.name}, !.pc = "next"]

Returned == IF run.job = "print" THEN Shown ELSE Exit(0)

(* wrapEx() makes a text of the exception, configure() reports it, nobody  *)
(* catches that of getNetworkInterfaces().  (Mutant: without wrapEx().)    *)
ThrewUnwrapped ==
  IF run.job = "print" THEN Terminate(run.fn) ELSE Exit(-1)
Threw ==
  IF run.job # "print" THEN Exit(-1)
  ELSE IF run.fn = "getNetworkInterfaces" THEN Terminate(run.fn)
  ELSE [Shown EXCEPT !.blank = IF run.fn = "getHardwareAddress" /\ run.name \notin Ether
                                 THEN @ ELSE @ \cup ({run.name} \cap run.calm)]

Over == run.pc \in {"exited", "terminated"}

PrintAll ==
  /\ Over
  /\ run' = [NoRun EXCEPT !.job = "print", !.pc = "call",
                          !.fn = "getNetworkInterfaces", !.calm = Addressed]
  /\ UNCHANGED <<table, sockets>>

NextInterface ==
  /\ run.pc = "next"
  /\ \/ \E n \in run.list \ run.shown :
           run' = [run EXCEPT !.name = n, !.fn = "getMTU", !.pc = "call"]
     \/ run.list = run.shown /\ run' = Exit(0)
  /\ UNCHANGED <<table, sockets>>

(* configure(), or usage() if there is no such setting.  Nobody catches    *)
(* what stoi() throws.                                                     *)
Configure(name, setting, valid) ==
  /\ Over
  /\ run' = IF setting \notin DOMAIN SetterOf THEN Exit(-1)
            ELSE IF setting = "mtu" /\ ~valid THEN [Terminate("setMTU") EXCEPT !.valid = FALSE]
            ELSE [NoRun EXCEPT !.job = "configure", !.pc = "call",
                    !.fn = SetterOf[setting], !.name = name, !.valid = valid]
  /\ UNCHANGED <<table, sockets>>

(* A program that calls a getter by itself.                                *)
Query(fn, name) ==
  /\ Over
  /\ run' = [NoRun EXCEPT !.job = "query", !.pc = "call", !.fn = fn, !.name = name]
  /\ UNCHANGED <<table, sockets>>

-----------------------------------------------------------------------------
(* The functions, up to the ioctl() and from there on.                     *)

(* assign_ifreq() throws, socket() fails, or the temporary socket is open. *)
OpenTempSocket ==
  /\ run.pc = "call"
  /\ \/ /\ run.fn = "getNetworkInterfaces" \/ run.name # LongName
        /\ sockets' = sockets + 1
        /\ run' = [run EXCEPT !.pc = "ioctl"]
     \/ /\ run' = [Threw EXCEPT !.calm = {}]
        /\ UNCHANGED sockets
  /\ UNCHANGED table

InIoctl(fn) == run.pc = "ioctl" /\ run.fn = fn

(* The call ends, and its socket is closed.                                *)
Ends(ok) ==
  /\ sockets' = sockets - 1
  /\ run' = IF ok THEN Returned ELSE Threw

(* (Mutant: the loop over the array ends too early.)                       *)
GetAllButOne ==
  /\ InIoctl("getNetworkInterfaces")
  /\ \E n \in Names : run' = [run EXCEPT !.pc = "next", !.list = Addressed \ {n}]
  /\ sockets' = sockets - 1
  /\ UNCHANGED table
GetNetworkInterfaces ==
  /\ InIoctl("getNetworkInterfaces")
  /\ \E list \in SUBSET Addressed :
       /\ IF Cardinality(Addressed) > MaxListed THEN Cardinality(list) = MaxListed
                                                ELSE list = Addressed
       /\ run' = [run EXCEPT !.pc = "next", !.list = list,
                             !.calm = IF list = Addressed THEN @ ELSE {}]
  /\ sockets' = sockets - 1
  /\ UNCHANGED table

(* ioctl() finds what fn asks for at the interfaces of the set known.      *)
Get(fn, known) ==
  /\ InIoctl(fn)
  /\ Ends(run.name \in known)
  /\ UNCHANGED table

GetInterfaceAddress   == Get("getInterfaceAddress", Addressed)
GetBroadcastAddress   == Get("getBroadcastAddress", Addressed)
GetNetmask            == Get("getNetmask", Addressed)
GetDestinationAddress == Get("getDestinationAddress", Addressed)
GetMTU                == Get("getMTU", Present)
GetHardwareAddress    == Get("getHardwareAddress", Present \cap Ether)

(* fn sets one of the sets of settings in changes, as the kernel finds the *)
(* others; its interface has to be in known, and the kernel can refuse the *)
(* value and the user.  What inet_aton() says of the text is not looked at.*)
Set(fn, known, changes) ==
  /\ InIoctl(fn)
  /\ \/ /\ run.name \in known
        /\ \E changed \in changes :
             table' = [table EXCEPT ![run.name] =
               IF changed = {} THEN @
               ELSE [s \in Settings |-> IF s \notin changed THEN @[s]
                                        ELSE IF run.valid THEN "good" ELSE "junk"]]
        /\ Ends(TRUE)
     \/ /\ Ends(FALSE)
        /\ UNCHANGED table

(* With an address that is new the kernel chooses the rest anew, with a    *)
(* netmask it does so with a broadcast address that was made from the old  *)
(* one.                                                                    *)
FromAddress == IF run.name \in Addressed THEN {Settings, {"address"}} ELSE {Settings}
FromNetmask == {{"netmask"}, {"netmask", "broadcast"}}

(* (Mutant of SetNetmask: the request is that of setBroadcastAddress().)   *)
SetInterfaceAddress   == Set("setInterfaceAddress", Present, FromAddress)
SetBroadcastAddress   == Set("setBroadcastAddress", Addressed, {{"broadcast"}})
SetBroadcastInstead   == Set("setNetmask", Addressed, {{"broadcast"}})
SetNetmask            == Set("setNetmask", Addressed, FromNetmask)
SetDestinationAddress == Set("setDestinationAddress", Addressed, {{"destination"}})
SetMTU                == Set("setMTU", Present, {{}})

(* Somebody else.                                                          *)
Reconfigure(n) ==
  /\ \E c \in {Absent, NoAddress, AllGood} \ {table[n]} : table' = [table EXCEPT ![n] = c]
  /\ run' = [run EXCEPT !.calm = @ \ {n}]
  /\ UNCHANGED sockets

Next ==
  \/ PrintAll \/ NextInterface
  \/ \E name \in Names \cup {LongName} :
       \/ \E setting \in DOMAIN SetterOf \cup {"?"}, valid \in BOOLEAN :
            Configure(name, setting, valid)
       \/ \E fn \in Getters : Query(fn, name)
  \/ OpenTempSocket \/ GetNetworkInterfaces
  \/ GetInterfaceAddress \/ GetBroadcastAddress \/ GetNetmask \/ GetDestinationAddress
  \/ GetMTU \/ GetHardwareAddress
  \/ SetInterfaceAddress \/ SetBroadcastAddress \/ SetNetmask \/ SetDestinationAddress \/ SetMTU
  \/ \E n \in Names : Reconfigure(n)

Spec == Init /\ [][Next]_vars

-----------------------------------------------------------------------------
(* Properties.                                                             *)

(* print() shows every interface that had an address all the time, with    *)
(* all its settings, unless the sockets or the 32 places ran out: what     *)
(* goes wrong with one interface between the list and a query leaves the   *)
(* others alone.                                                           *)
PrintShowsTheCalm ==
  [][run.pc = "next" /\ run'.pc = "exited" => run.calm \subseteq run.shown \ run.blank]_vars

(* Whichever way a function ends, its temporary socket is closed, and its  *)
(* exception ends mini_ifconfig only if there is no socket for the list of *)
(* interfaces, or stoi() finds no number; never between two interfaces.    *)
ExceptionsAreHandled ==
  /\ sockets = IF run.pc = "ioctl" THEN 1 ELSE 0
  /\ run.pc = "terminated" =>
       run.fn = "getNetworkInterfaces" \/ (run.fn = "setMTU" /\ ~run.valid)

(* What configure() has done when it returns 0: the setting has the value  *)
(* that was asked for, or, since nobody looks at what inet_aton() returns, *)
(* junk if the text was no address.  Of the other settings only those have *)
(* changed that the kernel makes from this one, and no other interface.    *)
(* When it returns -1 it has left all of them alone.                       *)
MadeFrom == [address |-> Settings, netmask |-> {"netmask", "broadcast"},
             broadcast |-> {"broadcast"}, destination |-> {"destination"}]

ZeroMeansSet ==
  [][\A s \in Settings :
       run.fn = SetterOf[s] /\ run.pc = "ioctl" /\ run'.pc = "exited" =>
         \/ run'.code = -1 /\ table' = table
         \/ /\ table'[run.name][s] = IF run.valid THEN "good" ELSE "junk"
            /\ \A r \in Settings \ MadeFrom[s] : table'[run.name][r] = table[run.name][r]
            /\ \A n \in Names \ {run.name} : table'[n] = table[n]]_vars

-----------------------------------------------------------------------------
(* What makes them inductive.                                              *)

(* print() asks for the list, and then for what it shows of an interface.  *)
PrintCalls ==
  run.job = "print" =>
    \/ run.fn = "getNetworkInterfaces"
    \/ run.fn \in DOMAIN Following \cup {"getHardwareAddress"} /\ run.name \in Names

Listing == run.fn = "getNetworkInterfaces" /\ run.pc \in {"call", "ioctl"}

(* The calm still have an address, are in the list once there is one, and  *)
(* no <fail> was shown for them.                                           *)
CalmOK ==
  /\ run.calm \subseteq Addressed
  /\ run.job # "print" => run.calm = {}
  /\ Listing \/ run.calm \subseteq run.list
  /\ run.calm \cap run.blank = {}

IInv == TypeOK /\ ExceptionsAreHandled /\ PrintCalls /\ CalmOK
=============================================================================
