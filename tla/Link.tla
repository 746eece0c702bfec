-------------------------------- MODULE Link --------------------------------
(***************************************************************************)
(* What the JTAG UART and its driver promise: two queues of characters,    *)
(* one from the processor to the host and one back.  Nothing is lost in    *)
(* them, repeated or reordered; only a writer that gives up keeps the      *)
(* characters that were not yet accepted.                                  *)
(***************************************************************************)
EXTENDS Naturals, Sequences

CONSTANTS Chars, MaxRequest

VARIABLES
    todo,               \* what the program still has to write
    down, up,           \* on their way to the host, and from the host
    buffer              \* what a read has got so far

Texts == UNION {[1..n -> Chars] : n \in 1..MaxRequest}
First(s, k) == SubSeq(s, 1, k)
Rest(s, k) == SubSeq(s, k + 1, Len(s))

Init == todo = <<>> /\ down = <<>> /\ up = <<>> /\ buffer = <<>>

Write == todo = <<>> /\ todo' \in Texts /\ UNCHANGED <<down, up, buffer>>
GiveUp == todo' = <<>> /\ UNCHANGED <<down, up, buffer>>

Accept ==
    \E k \in 1..Len(todo) :
        /\ down' = down \o First(todo, k)
        /\ todo' = Rest(todo, k)
        /\ UNCHANGED <<up, buffer>>

HostReads == down # <<>> /\ down' = Tail(down) /\ UNCHANGED <<todo, up, buffer>>
HostTypes == \E c \in Chars : up' = Append(up, c) /\ UNCHANGED <<todo, down, buffer>>

Take ==
    \E k \in 1..Len(up) :
        /\ buffer' = buffer \o First(up, k)
        /\ up' = Rest(up, k)
        /\ UNCHANGED <<todo, down>>

Read == buffer' = <<>> /\ UNCHANGED <<todo, down, up>>

Next == Write \/ GiveUp \/ Accept \/ HostReads \/ HostTypes \/ Take \/ Read

Spec == Init /\ [][Next]_<<todo, down, up, buffer>>

=============================================================================
