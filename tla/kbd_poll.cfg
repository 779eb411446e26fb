SPECIFICATION FairSpec
CONSTANT Reports <- MCReports
PROPERTIES ReportsArriveOnce KeysCatchUp
