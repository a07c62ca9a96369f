CONSTANT
  Plans <- MCPlans

SPECIFICATION Spec
INVARIANTS
  ProcessesStayApart
  SelectionStaysPut
  
  
CHECK_DEADLOCK FALSE
