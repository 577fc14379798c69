----------------------------- MODULE MCCheckout -----------------------------
(* Small instances of the checkouts and of the commands that use them.      *)
EXTENDS Checkout
CONSTANT tmpl
MCFailures == {"crash", "git", "delete", "copy", "clean", "rename"}
=============================================================================
