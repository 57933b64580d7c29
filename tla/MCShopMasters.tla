--------------------------- MODULE MCShopMasters ---------------------------
(* A small shop: two machines, a workbook that names one it does not list,   *)
(* one item and one order of it.                                           *)
EXTENDS ShopMasters, TLC

CONSTANTS c1, m1, m2, p1, d1, o1, a, b, k

ItemOfAll == [o \in Orders |-> c1]

(* Steps that can be typed: on one machine, on the other, on none (refused   *)
(* unless it is outsourced).                                                *)
Steps == {[name |-> a, on |-> {m1}, out |-> FALSE], [name |-> b, on |-> {m2}, out |-> FALSE],
          [name |-> b, on |-> {}, out |-> FALSE], [name |-> k, on |-> {}, out |-> TRUE]}

ABook == [items |-> [c \in Items |-> [steps |-> <<[name |-> a, on |-> {m1}, out |-> FALSE],
                                                  [name |-> b, on |-> {m2}, out |-> FALSE]>>,
                                      ver |-> 1, born |-> 0]],
          machines |-> {m1}, operators |-> [p \in People |-> {m1}]]
SomeBooks == {ABook}
============================================================================
