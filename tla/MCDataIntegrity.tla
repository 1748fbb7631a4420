-------------------------- MODULE MCDataIntegrity --------------------------
EXTENDS DataIntegrity

CONSTANTS m1, m2, d1

Options(purpose, vmID, vm, suite, domain, maxAge) ==
  [purpose |-> purpose, vmID |-> vmID, vm |-> vm, suite |-> suite, domain |-> domain,
   challenge |-> None, created |-> 0, maxAge |-> maxAge]

MCAllowedFor == [m \in Methods |-> IF m = m1 THEN {"assertion", "authentication"} ELSE {"assertion"}]

ByID ==
  {Options(p, m, None, "ecdsa", d, 0) : p \in {"assertion", "authentication"}, m \in Methods, d \in {None, "x"}}
Expectations ==
  {Options(p, None, None, None, d, a) : p \in {"assertion", "authentication"}, d \in {None, "x"}, a \in {0, 1}}
=============================================================================
