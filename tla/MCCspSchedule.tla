--------------------------- MODULE MCCspSchedule ------------------------------
EXTENDS CspSchedule, MCCspMenus
===============================================================================
