------------------------------ MODULE Operations ------------------------------
(***************************************************************************)
(* Operations of the driver, put together with the constructors of         *)
(* maybe_future.rs as the source puts them together.  An operation is a    *)
(* tree: the sequence of its nodes, from the root down, in which a node    *)
(* names the nodes of its parts, and 0 where it has no such part.          *)
(* MaybeFuture says what it means to wait for such a tree or to poll it.   *)
(***************************************************************************)
EXTENDS Naturals, Sequences

\* The tree t behind d other nodes.
Shift(t, d) ==
  LET To(k) == IF k = 0 THEN 0 ELSE k + d
  IN  [n \in DOMAIN t |-> [kind |-> t[n].kind, first |-> To(t[n].first), ok |-> To(t[n].ok),
                            err |-> To(t[n].err), value |-> t[n].value]]

Leaf(kind, value) == <<[kind |-> kind, first |-> 0, ok |-> 0, err |-> 0, value |-> value]>>

\* A combinator of the operations `first', `ok' and `err', of which the last
\* two are what its continuation builds; <<>> is an operation it has not.
Combinator(kind, first, ok, err) ==
  LET Place(t, d) == IF t = <<>> THEN 0 ELSE d + 1
      o == 1 + Len(first)
      e == o + Len(ok)
  IN  <<[kind |-> kind, first |-> Place(first, 1), ok |-> Place(ok, o), err |-> Place(err, e),
         value |-> "none"]>>
      \o Shift(first, 1) \o Shift(ok, o) \o Shift(err, e)

-----------------------------------------------------------------------------
(* The constructors                                                         *)

Transfer == Leaf("transfer", "none")   \* submitted by being built
Blocking == Leaf("blocking", "none")   \* a system call, started by the conversion or the wait
Ready(v) == Leaf("ready", v)

AndThen(first, ok)            == Combinator("and_then", first, ok, <<>>)
ContinueWith(first, ok)       == Combinator("continue_with", first, ok, <<>>)
ContinueMatch(first, ok, err) == Combinator("continue_with", first, ok, err)
Either(one)                   == Combinator("either", one, <<>>, <<>>)
Operation(body)               == Combinator("operation", body, <<>>, <<>>)

\* Mutant of Defer: the operation is built with its owner's.
DeferEager(op) == op

\* Construction of an operation that may submit is put off until it is run.
Defer(op) == ContinueWith(Ready("ok"), op)

-----------------------------------------------------------------------------
(* The driver                                                               *)

\* control_out and control_in of the transport.
Control == Defer(Transfer)

\* Com::i2c_read: the register is written, and read if that succeeds.
I2cRead == Operation(AndThen(Control, Control))

\* Com::receiver, in the operation of receiver_mode: a second write turns it on.
ReceiverOff == Operation(Control)
ReceiverOn  == Operation(AndThen(Control, Control))

\* A string of the device, asked for if the list did not have it.
MissingString(missing) == Either(IF missing THEN Transfer ELSE Ready("ok"))

\* read_missing_strings: the product's name after the manufacturer's, whatever
\* became of that, and neither failure is the operation's.
ReadMissingStrings(missing) ==
  Defer(ContinueWith(MissingString(missing), ContinueWith(MissingString(missing), Ready("ok"))))

\* The device is selected and opened, perhaps configured, claimed, and asked
\* for the language and the strings that are missing.
OpenDevice(configured, missing) ==
  LET selected   == AndThen(Blocking, Blocking)
      configure  == Either(IF configured THEN Ready("ok") ELSE Blocking)
      claimed    == AndThen(AndThen(selected, configure), Blocking)
      language   == Either(IF missing THEN Defer(Transfer) ELSE Ready("ok"))
  IN  AndThen(claimed, ContinueWith(language, ReadMissingStrings(missing)))

\* Receiver::start on a new queue: the receiver is turned off, the endpoint
\* taken or not to be had, the receiver turned on and the endpoint's halt
\* cleared; after an error the receiver is turned off, and the error returned.
Start(endpoint) ==
  LET run == AndThen(Either(ReceiverOff),
                     AndThen(Ready(endpoint), AndThen(ReceiverOn, Either(Blocking))))
      off == Either(ContinueWith(ReceiverOff, Ready("err")))
  IN  ContinueWith(Ready("ok"), AndThen(Ready("ok"), Either(ContinueMatch(run, Either(Ready("ok")), off))))
=============================================================================
