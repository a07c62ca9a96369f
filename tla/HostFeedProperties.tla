------------------------- MODULE HostFeedProperties -------------------------
(***************************************************************************)
(* What the host stream promises its clients, stated over HostFeed.        *)
(***************************************************************************)
EXTENDS HostFeed

Events(s)      == {s[i] : i \in {j \in DOMAIN s : s[j].kind # "gap"}}
Seen(c)        == Events(got[c])
Has(c, n)      == \E f \in Seen(c) : f.kind = "snapshot" /\ f.seq = n

(* A snapshot announced by the running gateway can be fetched: it is in    *)
(* the tables under the number it was announced with, and so are its       *)
(* processes, unless its save failed or it was purged.  A crash inside a   *)
(* tick never leaves a frame that was seen and not stored                  *)
(* (systemStream.ts tick: save first, then emit).                          *)
StoredBeforeSeen ==
    \A c \in Clients : \A f \in Seen(c) \cup Events(wire[c]) :
        \/ f.snap <= base
        \/ f.snap \in unsaved
        \/ f.snap <= cut
        \/ /\ f.seq \in DOMAIN store
           /\ store[f.seq] = f.snap
           /\ f.kind = "processes" => <<f.seq, f.snap>> \in procs

(* What a client can have missed, as long as the gateway was not           *)
(* restarted: it receives every snapshot once and in order, over any       *)
(* number of lost connections, except one that was never stored, one that  *)
(* was purged, one that a gap frame names, one beyond a full replay batch, *)
(* and one whose process frame, under the same id, was the last frame it   *)
(* received before the connection broke.                                   *)
Excused(c, n) ==
    \/ n \in unsaved
    \/ n <= cut
    \/ n \in told[c]
    \/ n \in past[c]
    \/ \E f \in Seen(c) : f.kind = "processes" /\ f.seq = n

ResumeIsExact ==
    starts = 1 =>
        \A c \in Clients :
            LET s == got[c]
            IN  /\ \A i, j \in 1..Len(s) :
                       (i < j /\ s[i].kind = "snapshot" /\ s[j].kind = "snapshot") => s[i].seq < s[j].seq
                /\ \A i \in 1..Len(s) : \A n \in s[1].seq..s[i].seq :
                       \/ Has(c, n)
                       \/ Excused(c, n)
=============================================================================
