--------------------------- MODULE AbstractLedger ---------------------------
(***************************************************************************)
(* What the main chain promises to those who read it (GetLastState,          *)
(* GetMainBlockByMainNumber, the synchroniser's locator): a sequence of main   *)
(* blocks, each with the ledger state that holds after it. A step keeps a       *)
(* prefix, drops what lies above it and adds one main block, whose state is     *)
(* that of its predecessor with further blocks settled on top.                *)
(***************************************************************************)
EXTENDS Integers, Sequences

CONSTANTS Blocks, Genesis, Links

VARIABLE main   \* main blocks by number, genesis first: [hash, state], state = [done, ok]

Init == main = <<[hash |-> Genesis, state |-> [done |-> {Genesis}, ok |-> {Genesis}]]>>

(* every link of a settled block is settled *)
Closed(done) == \A b \in done : \A i \in DOMAIN Links[b] : Links[b][i] \in done

(* e may follow d: e settles itself and other blocks that d has not settled, and   *)
(* what took effect before still does                                           *)
Follows(d, e) ==
  /\ e.hash \in e.state.done \ d.state.done
  /\ d.state.done \subseteq e.state.done /\ Closed(e.state.done)
  /\ d.state.ok \subseteq e.state.ok
  /\ e.state.ok \ d.state.ok \subseteq e.state.done \ d.state.done

AddAbove(k) ==
  /\ Len(main') = k + 1
  /\ SubSeq(main', 1, k) = SubSeq(main, 1, k)
  /\ Follows(main[k], main'[k + 1])

Next == \E k \in 1 .. Len(main) : AddAbove(k)

Spec == Init /\ [][Next]_main
=============================================================================
