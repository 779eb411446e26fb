----------------------------- MODULE UsbLimits -----------------------------
(***************************************************************************)
(* The limit of transfer.h that every packet is under.                     *)
(***************************************************************************)
EXTENDS Integers

CONSTANT USB_RETRY_LIMIT    \* attempts without an answer   (3)

ASSUME RetryAssumption == USB_RETRY_LIMIT \in Nat \ {0}

=============================================================================
