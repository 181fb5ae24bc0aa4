SPECIFICATION HelmSpec
CONSTANTS
  old = old
  new = new
  again = again
  chart = chart
  v1 = v1
  v2 = v2
  NoChart = NoChart
  Tasks = {old, new, again}
  Charts = {chart}
  Versions = {v1, v2}
  Chart <- TaskChart
  Version <- TaskVersion
  HelmForced = TRUE
PROPERTY SavedAsAsked
