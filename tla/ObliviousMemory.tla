-------------------------- MODULE ObliviousMemory --------------------------
(***************************************************************************)
(* What OramInterface promises to its callers: a memory of addresses in    *)
(* which a READ returns the data last written to the address, or nothing.  *)
(* One call is served at a time, and takes effect between its invocation   *)
(* and its return.                                                         *)
(***************************************************************************)
CONSTANTS Address, Data, NoData

VARIABLES memory, status, call, response
vars == <<memory, status, call, response>>

Operation == {"READ", "WRITE"}
Call == [op : {"READ"}, index : Address, data : {NoData}]
          \cup [op : {"WRITE"}, index : Address, data : Data]

Init == /\ memory = [a \in Address |-> NoData]
        /\ status = "idle"
        /\ call \in Call
        /\ response = NoData

Invoke(c) == /\ status = "idle"
             /\ status' = "called"
             /\ call' = c
             /\ response' = NoData
             /\ UNCHANGED memory

Perform == /\ status = "called"
           /\ status' = "served"
           /\ \/ /\ call.op = "READ"
                 /\ response' = memory[call.index]
                 /\ UNCHANGED memory
              \/ /\ call.op = "WRITE"
                 /\ memory' = [memory EXCEPT ![call.index] = call.data]
                 /\ UNCHANGED response
           /\ UNCHANGED call

Return == /\ status = "served"
          /\ status' = "idle"
          /\ UNCHANGED <<memory, call, response>>

Next == (\E c \in Call : Invoke(c)) \/ Perform \/ Return

Spec == Init /\ [][Next]_vars
=============================================================================
