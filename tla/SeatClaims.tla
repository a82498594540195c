------------------------------ MODULE SeatClaims ------------------------------
(***************************************************************************)
(* What an activation promises, with no message in sight: it is a claim to *)
(* one machine of a licence, and all it does happens in single steps, each *)
(* at most once.  A claim adds at most one row and gives back at most that *)
(* one; what its caller is told is what came of it; and once it is granted *)
(* or refused, or told that its row is gone, it never touches a row again. *)
(***************************************************************************)
EXTENDS Naturals, FiniteSets

CONSTANTS
    Calls,          \* the claims
    Args,           \* what they may be for
    Seats,          \* [licences -> Nat]: most machines a ruling accepts
    CreateCap,      \* [licences -> Nat]: most machines that may be added to
    ConflictScope,  \* [licences -> sets of licences]: where one machine is one
    Installed,      \* the rows at the start
    SideRulings     \* rulings that do not come from the number of machines

VARIABLES
    rows,    \* the machine rows
    nextId,  \* the next row id
    args,    \* what each claim is for
    stage,   \* "idle", "open", or what the caller has been told
    due,     \* what the server owes the claim, or why it declined it
    ruling,  \* what was ruled since the claim has its machine, or "undone"
    seat     \* the machine the claim has to show

vars == <<rows, nextId, args, stage, due, ruling, seat>>

NoRow == [id |-> 0]

OnLicense(l) == {m \in rows : m.license = l}
Conflicts(a) == {m \in rows : /\ m.fingerprint = a.fingerprint
                              /\ m.license \in ConflictScope[a.license]}
Full(l) == Cardinality(OnLicense(l)) >= CreateCap[l]

\* What the claim has added and not given back.
Own(c) == {m \in rows : m.by = c}

-----------------------------------------------------------------------------
(* What happens to the rows.                                               *)

Ask(c) ==
    /\ stage[c] = "idle"
    /\ \E a \in Args : args' = [args EXCEPT ![c] = a]
    /\ stage' = [stage EXCEPT ![c] = "open"]
    /\ due' = [due EXCEPT ![c] = "take"]
    /\ UNCHANGED <<rows, nextId, ruling, seat>>

\* The claim gets a machine of its own, even if its caller has given up.
Take(c) ==
    /\ due[c] = "take"
    /\ Conflicts(args[c]) = {} /\ ~Full(args[c].license)
    /\ LET m == [id |-> nextId, license |-> args[c].license,
                 fingerprint |-> args[c].fingerprint, by |-> c]
       IN  /\ rows' = rows \cup {m}
           /\ seat' = IF stage[c] = "open" THEN [seat EXCEPT ![c] = m] ELSE seat
    /\ nextId' = nextId + 1
    /\ due' = [due EXCEPT ![c] = "nothing"]
    /\ UNCHANGED <<args, stage, ruling>>

Decline(c) ==
    /\ due[c] = "take"
    /\ \E why \in {"conflict", "full"} :
          /\ why = "conflict" => Conflicts(args[c]) # {}
          /\ why = "full" => Full(args[c].license)
          /\ due' = [due EXCEPT ![c] = IF stage[c] = "open" THEN why ELSE "nothing"]
    /\ UNCHANGED <<rows, nextId, args, stage, ruling, seat>>

\* The machine is there already, on this licence, by somebody else.
Adopt(c) ==
    /\ stage[c] = "open" /\ due[c] = "conflict" /\ args[c].idempotent
    /\ \E m \in OnLicense(args[c].license) :
          /\ m.fingerprint = args[c].fingerprint /\ m.by # c
          /\ seat' = [seat EXCEPT ![c] = m]
    /\ due' = [due EXCEPT ![c] = "nothing"]
    /\ UNCHANGED <<rows, nextId, args, stage, ruling>>

\* Once it has its machine, the rows of the licence are counted.
Rule(c) ==
    /\ stage[c] = "open" /\ due[c] = "nothing" /\ seat[c] # NoRow /\ ruling[c] = "none"
    /\ LET l == args[c].license
       IN  \E r \in SideRulings
                    \cup (IF Cardinality(OnLicense(l)) > Seats[l] THEN {"over"} ELSE {"valid"}) :
              ruling' = [ruling EXCEPT ![c] = r]
    /\ UNCHANGED <<rows, nextId, args, stage, due, seat>>

\* Over the limit, the machine goes back, if it is the claim's own.
ToUndo(c) == ruling[c] = "over" /\ args[c].autoDelete /\ seat[c].by = c

Undo(c) ==
    /\ stage[c] = "open" /\ due[c] = "nothing" /\ ToUndo(c)
    /\ due' = [due EXCEPT ![c] = "giveBack"]
    /\ ruling' = [ruling EXCEPT ![c] = "undone"]
    /\ UNCHANGED <<rows, nextId, args, stage, seat>>

GiveBack(c) ==
    /\ due[c] = "giveBack"
    /\ rows' = rows \ Own(c)
    /\ due' = [due EXCEPT ![c] = "nothing"]
    /\ UNCHANGED <<nextId, args, stage, ruling, seat>>

\* Somebody else removes a row.
Remove(m) ==
    /\ rows' = rows \ {m}
    /\ UNCHANGED <<nextId, args, stage, due, ruling, seat>>

-----------------------------------------------------------------------------
(* What the caller is told.                                                *)

Owed == {"take", "giveBack"}
Granted == {"valid", "invalid", "over"}

\* Of what is owed when the caller leaves, the server may be late to know.
Close(c, told) ==
    /\ stage[c] = "open"
    /\ stage' = [stage EXCEPT ![c] = told]
    /\ due' = [due EXCEPT ![c] = IF due[c] \in Owed THEN due[c] ELSE "nothing"]
    /\ ruling' = [ruling EXCEPT ![c] = "none"]
    /\ seat' = [seat EXCEPT ![c] = IF told \in Granted THEN seat[c] ELSE NoRow]
    /\ UNCHANGED <<rows, nextId, args>>

\* The ruling was given with the machine counted, which stays.
Grant(c) ==
    /\ due[c] = "nothing" /\ seat[c] # NoRow /\ ruling[c] \in Granted /\ ~ToUndo(c)
    /\ Close(c, ruling[c])

\* The claim was declined, has left nothing and never will.
Refuse(c) ==
    /\ seat[c] = NoRow /\ Own(c) = {}
    /\ \/ due[c] = "conflict" /\ Close(c, "taken")
       \/ due[c] = "full" /\ Close(c, "refused")
       \/ due[c] = "full" /\ Close(c, "limitError")

\* The machine is gone again.
Undone(c) ==
    /\ due[c] = "nothing" /\ ruling[c] = "undone" /\ Own(c) = {}
    /\ Close(c, "rolledBack")

\* Or may be.
Unconfirmed(c) ==
    /\ due[c] \in {"nothing", "giveBack"} /\ ruling[c] = "undone"
    /\ Close(c, "rollbackUnconfirmed")

\* The caller learns nothing, or has stopped listening.
GiveUp(c) ==
    \/ due[c] # "giveBack" /\ Close(c, "error")
    \/ Close(c, "cancelled")

Init ==
    /\ rows = Installed
    /\ nextId = Cardinality(Installed) + 1
    /\ args \in [Calls -> {CHOOSE a \in Args : TRUE}]
    /\ stage = [c \in Calls |-> "idle"]
    /\ due = [c \in Calls |-> "nothing"]
    /\ ruling = [c \in Calls |-> "none"]
    /\ seat = [c \in Calls |-> NoRow]

Next ==
    \/ \E c \in Calls : \/ Ask(c) \/ Take(c) \/ Decline(c) \/ Adopt(c) \/ Rule(c)
                        \/ Undo(c) \/ GiveBack(c)
                        \/ Grant(c) \/ Refuse(c) \/ Undone(c) \/ Unconfirmed(c) \/ GiveUp(c)
    \/ \E m \in rows : Remove(m)

Spec == Init /\ [][Next]_vars
=============================================================================
