---------------------------- MODULE LoxSemantics ----------------------------
(* What an implementation of Lox promises of a session: each source in turn  *)
(* prints what the language says, in order, and ends as the language says.   *)
EXTENDS Sequences, Naturals

VARIABLES promise,   \* of every source: the output by its end, and its result
          output,    \* what the sources have printed, one after another
          results    \* how the sources that have ended did so

lox == <<promise, output, results>>

Running == Len(results) < Len(promise)

\* What is printed by the end of the source that runs.
Due == promise[Len(results) + 1].output

Begin == output = <<>> /\ results = <<>>

PrintNext ==
  /\ Running /\ Len(output) < Len(Due)
  /\ output' = Append(output, Due[Len(output) + 1])
  /\ UNCHANGED <<promise, results>>

End ==
  /\ Running /\ output = Due
  /\ results' = Append(results, promise[Len(results) + 1].result)
  /\ UNCHANGED <<promise, output>>

Spec == Begin /\ [][PrintNext \/ End]_lox /\ WF_lox(PrintNext \/ End)
=============================================================================
