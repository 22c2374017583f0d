SPECIFICATION DelegationSpec
CONSTANTS
  Families <- MCFamilies
  Tools <- MCTools
  Times <- MCTimes
  Delegations = {1, 2}
  Parents <- MCParents
  Requests <- MCRequests
  ParentBudget = 1
  Budgets = {1, 3}
  Timed = {2}
  MaxUse = 3
INVARIANTS
  
  StoppedIsTold
  
PROPERTIES
  DelegationEnds
CHECK_DEADLOCK FALSE
