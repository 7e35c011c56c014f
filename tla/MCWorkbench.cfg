SPECIFICATION Spec
CONSTANTS
  Forms <- AllForms
  Commands <- AllCommands
  Pages <- AllPages
  Unprotected = {"create-lead", "contact", "no-response"}
  Hasty = {"record-expense", "create-payable", "record-payment", "create-contract"}
  Sticky = {"record-receipt", "allocate", "create-case"}
  Outdated = {"change-purchase"}
  Unvetted = {"complete-order", "generate", "change-purchase", "start-negotiation"}
  Lagging <- LeftBehind
  Contents = {1, 2}
  MaxVersion = 3
  MaxSends = 2
  MaxTurns = 2
INVARIANTS DoneOnce SuccessIsOfWhatWasSent NobodyIsStuckOnAKey DecidedOnWhatWasShown OfferedIsAccepted OwnWorkIsShown NothingIsStranded
CHECK_DEADLOCK FALSE
