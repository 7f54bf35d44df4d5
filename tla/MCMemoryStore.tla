----------------------------- MODULE MCMemoryStore -----------------------------
(* Two namespaces; two statements of one topic, which merge; two task         *)
(* memories that differ in case only, which do not merge but compete.         *)
EXTENDS MemoryStore

CONSTANTS alice, bob, stackA, stackB, taskLower, taskUpper, stack, task, none

MCTopic == [f \in {stackA, stackB, taskLower, taskUpper} |->
              IF f \in {stackA, stackB} THEN stack ELSE none]
MCSlot == [f \in {stackA, stackB, taskLower, taskUpper} |->
             IF f \in {stackA, stackB} THEN stack ELSE task]
=============================================================================
