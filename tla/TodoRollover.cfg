SPECIFICATION Spec
CONSTANTS
  call = call
  water = water
  Tasks <- MCTasks
  Daily <- MCDaily
  Procs = {c1, c2}
  Bodies <- MCBodies
  LastDay = 4
  Runs = 3
  Edits = 2
  Exposed = {"crash", "overlap"}
SYMMETRY MCSymmetry
INVARIANTS
  OneTodoPerDay
  OpenTasksOnNewest
  OpenTasksSurvive
  OpenOnce
PROPERTIES
  NewTodoIsComplete
CHECK_DEADLOCK FALSE
