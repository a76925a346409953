CONSTANTS
  Programs <- AcceptedPrograms
SPECIFICATION Spec
INVARIANTS DropsBalance ExceptionsArrive
  DefiniteReturnSound DefiniteAssignmentSound
