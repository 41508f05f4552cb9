---------------------------- MODULE MCGoroutine ----------------------------
(* Instances of Goroutine for TLC. *)
EXTENDS Goroutine

(* With Int32Half = 4 an int32 has three bits: 9 narrows to 1 and 4 to -4.  *)
MCOptionLists ==
    { <<[name |-> "worker", value |-> 9], [name |-> "block_error", value |-> 1],
        [name |-> "batch_process", value |-> 1]>>,
      <<[name |-> "batch_process", value |-> 2], [name |-> "step_timeout_ms", value |-> 9],
        [name |-> "worker", value |-> 2]>>,
      <<[name |-> "block_error", value |-> 1], [name |-> "worker", value |-> 4],
        [name |-> "batch_process", value |-> 2]>> }

(* One worker, block_error on, chunks of two; panics end the process. *)
StrictOptionLists ==
    { <<[name |-> "worker", value |-> 1], [name |-> "block_error", value |-> 1],
        [name |-> "batch_process", value |-> 2], [name |-> "panic_as_error", value |-> 0]>>,
      <<[name |-> "other", value |-> 0]>> }
AllOptionLists == MCOptionLists \cup StrictOptionLists
=============================================================================
