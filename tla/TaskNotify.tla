----------------------------- MODULE TaskNotify -----------------------------
(***************************************************************************)
(* One slot of a FreeRTOS task's notification array, as the firmware uses  *)
(* it (configTASK_NOTIFICATION_ARRAY_ENTRIES slots per task).  A slot is a *)
(* set of bits and a "pending" state; the two are independent: a task      *)
(* blocked on the slot wakes because the slot is pending, whatever bits    *)
(* are set, and clearing bits leaves a pending slot pending.               *)
(***************************************************************************)

\* The slot of a task nobody has notified.
NoNotification == [bits |-> {}, pending |-> FALSE]

\* xTaskNotifyIndexed(task, slot, b, eSetBits)
WithBits(slot, b) == [bits |-> slot.bits \cup b, pending |-> TRUE]

\* ulTaskNotifyValueClearIndexed(task, slot, b): the pending state is kept.
WithoutBits(slot, b) == [slot EXCEPT !.bits = @ \ b]

\* A faulty variant of Collected: the bits are cleared, the slot stays pending.
CollectedBitsOnly(slot, b) == [slot EXCEPT !.bits = @ \ b]

\* What xTaskNotifyWaitIndexed(slot, 0, b, ...) leaves when it returns pdTRUE.
Collected(slot, b) == [bits |-> slot.bits \ b, pending |-> FALSE]

\* The type of a slot over a set of bit names.
Slot(Bits) == [bits : SUBSET Bits, pending : BOOLEAN]

=============================================================================
