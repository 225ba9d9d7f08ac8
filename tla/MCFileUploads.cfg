CONSTANTS
  Files = {f1, f2}
  MaxDrops = 2
SPECIFICATION LiveSpec
INVARIANTS
  OneAjaxUpload
  BarWhileUploading
PROPERTIES
  DoneIsNotStarted
  DropsAreUploaded
  BarSettles
CHECK_DEADLOCK FALSE
