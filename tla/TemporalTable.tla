---------------------------- MODULE TemporalTable ----------------------------
(***************************************************************************)
(* rltrader/circ_table.h: a table of the last NUM_ROWS books, and what     *)
(* MarketSignalBuilder::compute_lagged_ofi of market_signal_builder.cc     *)
(* reads from its four tables, which are used alike and are one here.      *)
(*                                                                         *)
(* currentRow starts at the largest u_int; as each use of it adds to it    *)
(* before it is taken modulo NUM_ROWS, -1 stands for that value.           *)
(***************************************************************************)
EXTENDS Integers

CONSTANTS NUM_ROWS,  \* 30
          ZeroRow    \* a row nobody added

ASSUME TableAssumption == NUM_ROWS \in Nat \ {0}

NewTable == [currentRow |-> -1, buffer |-> [r \in 0 .. NUM_ROWS - 1 |-> ZeroRow]]

\* Mutant (see the README): the row is stored before the index moves on.
StaysOnRow(table) == IF table.currentRow < 0 THEN 0 ELSE table.currentRow

nextRow(table) == (table.currentRow + 1) % NUM_ROWS

addRow(table, row) ==
  [currentRow |-> nextRow(table), buffer |-> [table.buffer EXCEPT ![nextRow(table)] = row]]

get_lagged_row(table, lag) == (table.currentRow + NUM_ROWS - lag) % NUM_ROWS
get(table, lag) == table.buffer[get_lagged_row(table, lag)]

\* compute_lagged_ofi passes to get what get_lagged_row returns.
laggedBook(table, lag) == get(table, get_lagged_row(table, lag))
=============================================================================
