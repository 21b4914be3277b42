SPECIFICATION Spec
CONSTANTS
    Ids = {1, 2}
    QueueLength = 2
INVARIANTS PathLegal NeverBlocksItself
PROPERTIES ClickWhole OpensChosen SelectionKept Quiet

