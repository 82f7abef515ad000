SPECIFICATION FairSpec
CONSTANTS
  Empty = ""
  Objects <- SomeObjects
  Clusters <- SomeClusters
  MaxChanges = 2
  MaxFaults = 1
PROPERTIES FindsOneCluster FindingsSettle
