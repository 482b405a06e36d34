------------------------------ MODULE Transfers -----------------------------
(***************************************************************************)
(* The calls that clients of a bus make (fd_i2cm.c, fd_spim.c), each as    *)
(* the transfers of its one transaction.                                   *)
(***************************************************************************)

(* I2C: a transfer sends bytes, or receives count of them. *)

Tx(bytes) == [dir |-> "tx", bytes |-> bytes, count |-> 0]
Rx(count) == [dir |-> "rx", bytes |-> <<>>, count |-> count]
DeviceTxn(bytes) == <<Tx(bytes)>>
DeviceRxn(count) == <<Rx(count)>>
SequenceTx1Rx1(byte) == <<Tx(<<byte>>), Rx(1)>>
SequenceTx1Tx1(a, b) == <<Tx(<<a, b>>)>>
SequenceTxnRxn(bytes, count) == <<Tx(bytes), Rx(count)>>

(* SPI: a transfer sends tx while it receives, and goes on up to rx. *)

SpiTransfer(tx, rx) == [tx |-> tx, rx |-> rx]
SpiTxnRxn(tx, rx) == <<SpiTransfer(tx, rx)>>
SpiSequenceTxnRxn(tx, rx) == <<SpiTransfer(tx, 0), SpiTransfer(<<>>, rx)>>
SpiTx1(byte) == SpiTxnRxn(<<byte>>, 0)
SpiRxn(rx) == SpiTxnRxn(<<>>, rx)
=============================================================================
